---- MODULE Spec2Model ----
(***************************************************************************)
(* ProxyPool (src/unnamed/part_000, lines 6-688): the pool of validated    *)
(* proxies, its round-robin cursor, the validation cache and the refill    *)
(* cycle with its await points.                                            *)
(*                                                                         *)
(* A JavaScript string such as "1.2.3.4:8080:user:pass" is modelled by the *)
(* sequence of its colon-free segments, so proxy.split(':') yields the     *)
(* segments and a template `${a}:${b}` is the concatenation of segments.   *)
(* Every action is one run of the event loop: the code from one resumption *)
(* (a call, a timer, a resolved await) up to the next await.               *)
(***************************************************************************)
EXTENDS Integers, Sequences, FiniteSets, TLC

VARIABLES
  availableProxies,    \* this.availableProxies: sequence of proxy objects
  currentIndex,        \* this.currentIndex (0-based)
  proxyCache,          \* this.proxyCache: Map in insertion order, entries [key, valid, timestamp]
  isRefilling,         \* this.isRefilling
  isInitialized,       \* this.isInitialized
  checkTimer,          \* this.checkTimer: id of the referenced interval timer, 0 for null
  timers,              \* interval timers that are still active
  timersCreated,       \* number of setInterval calls so far
  stopped,             \* stop() has returned and initialize() has not been called since
  progressCurrent,     \* this.progressCurrent
  lastProgressString,  \* this.lastProgressString
  cycles,              \* the activations of refillProxies: locals and position
  initWait,            \* initialize() calls suspended at line 169
  now,                 \* Date.now()
  useCache,            \* options.useCache
  cacheExpiry,         \* options.cacheExpiry
  showProgressBar,     \* options.showProgressBar
  stdoutIsTTY,         \* whether process.stdout is a tty.WriteStream (has clearLine/cursorTo)
  lastExit,            \* how the refillProxies activation that ended last ended
  snapshot,            \* the array the last getAllProxies call returned, as its caller holds it
  snapshotShared,      \* that array is the object this.availableProxies refers to
  callThrew,           \* a call of getProxy, removeProxy or getAllProxies has thrown
  completion,          \* per activation: the probes of the sub-batch in flight, in the
                       \* order they resolved (recorded where that order is examined)
  cookieEntries,       \* cookieManager.cookieEntries: the userIds of its entries, in order
  cookieIndex,         \* cookieManager.currentIndex
  currentCookieData,   \* the module-level currentCookieData: a userId, or NoCookie for null
  requests,            \* the activations of fetchNotionResponse: position and cookie sent
  moduleProxy,         \* the module-level `proxy` of src/unnamed/part_000 (line 781)
  acquired,            \* per request through the pool: position and the proxy getProxy gave it
  initialized,         \* cookieManager.initialized
  cmCalls,             \* the initialize and validate calls suspended in fetchNotionIds
  proxyProcess,        \* proxyServer.proxyProcess: a process id, 0 for null
  logStream,           \* proxyServer.logStream: the id of the process it was opened for, 0 for null
  processes,           \* the helper processes spawned so far and their state
  startCalls           \* start() calls suspended at line 148, by the process they spawned

vars == <<availableProxies, currentIndex, proxyCache, isRefilling, isInitialized,
          checkTimer, timers, timersCreated, stopped, progressCurrent, lastProgressString,
          cycles, initWait, now, useCache, cacheExpiry, showProgressBar, stdoutIsTTY,
          lastExit, snapshot, snapshotShared, callThrew, completion,
          cookieEntries, cookieIndex, currentCookieData, requests,
          moduleProxy, acquired, initialized, cmCalls,
          proxyProcess, logStream, processes, startCalls>>

-----------------------------------------------------------------------------
(* Configuration (constructor options, lines 28-42) *)
targetCount == 2
batchSize == 2
concurrentRequests == 1
minThreshold == 1
maxRefillAttempts == 2
DefaultCacheExpiry == 1
ProviderMaxCount == 10

(* Bounds of the model *)
MaxExpiry == 2    \* the cacheExpiry options examined run from DefaultCacheExpiry to MaxExpiry
MaxAge == 2       \* where cache entries age, the clock runs from 0 to MaxAge
MaxTarget == 6    \* target counts for which the requested batch size is computed
MaxBatch == 3     \* batch sizes for which it is computed
MaxCycles == 2    \* activations of refillProxies that can be suspended at once
MaxInit == 2      \* initialize() calls that can be suspended at once
MaxSnapshot == 2  \* length up to which a caller extends an array it was given
MaxRequests == 2  \* activations of fetchNotionResponse that can be in flight at once
MaxCookies == 3   \* entries up to which the add command extends the cookie list
MaxCalls == 2     \* initialize and validate calls that can be suspended at once
MaxSpawns == 3    \* helper processes spawned in one behaviour

CycleIds == 1..MaxCycles

Min(a, b) == IF a < b THEN a ELSE b
Max(a, b) == IF a > b THEN a ELSE b

-----------------------------------------------------------------------------
(* Values *)
Undefined == "undefined"

\* Lines the provider can return: json says whether JSON.parse accepts the line,
\* the other fields are those of the parsed object, "" for a missing field.
LineA == [json |-> TRUE, ip |-> "a", port |-> "80", username |-> "",  password |-> ""]
LineAU == [json |-> TRUE, ip |-> "a", port |-> "80", username |-> "u", password |-> "w"]
LineB == [json |-> TRUE, ip |-> "b", port |-> "80", username |-> "",  password |-> ""]
ProviderLines == { LineA, LineAU, LineB }

\* A third host, a line that is not JSON, an object without port, an object
\* with a username and no password
LineC == [json |-> TRUE, ip |-> "c", port |-> "80", username |-> "",  password |-> ""]
LineBad == [json |-> FALSE, ip |-> "", port |-> "", username |-> "", password |-> ""]
LineNoPort == [json |-> TRUE, ip |-> "b", port |-> "", username |-> "", password |-> ""]
LineUserOnly == [json |-> TRUE, ip |-> "b", port |-> "80", username |-> "u", password |-> ""]

\* Provider responses: nothing, every one and two lines, and three lines (two
\* sub-batches): all distinct, and with a repeated line.
ProviderResponses ==
  { <<>> } \cup { <<x>> : x \in ProviderLines }
           \cup { <<x, y>> : x \in ProviderLines, y \in ProviderLines }
           \cup { <<LineA, LineB, LineAU>>, <<LineB, LineB, LineA>> }

\* The responses drawn when the scheduler is modelled
SchedulerResponses == { <<>>, <<LineA>>, <<LineA, LineB>>, <<LineA, LineAU>> }

\* Arguments of removeProxy(ip, port); "c" is a host no proxy has.
RemoveArgs == { <<"a", "80">>, <<"b", "80">>, <<"c", "80">> }

\* The same with a missing (undefined) host or port
RemoveArgsAny == RemoveArgs \cup { <<"a", Undefined>>, <<Undefined, "80">> }

\* The responses drawn when the callers of the public methods are modelled
CallerResponses == { <<>>, <<LineA>>, <<LineA, LineB>> }

\* The bodies drawn when the provider client is modelled: empty, one known
\* candidate, two and three candidates (two sub-batches), no usable line, and
\* usable lines between unusable ones
ReplyBodies ==
  { <<>>, <<LineAU>>, <<LineB, LineC>>, <<LineAU, LineB, LineC>>,
    <<LineBad, LineNoPort>>, <<LineBad, LineC, LineNoPort, LineUserOnly>> }

\* The outcomes of the provider request: it fails, or it is answered with a
\* status (200 or 500) and a body
ProviderReplies ==
  { [failed |-> TRUE, status |-> 0, data |-> <<>>] }
    \cup { [failed |-> FALSE, status |-> st, data |-> body] :
             st \in {200, 500}, body \in ReplyBodies }

\* What getProxy returns: a pool entry, null, or undefined
NoProxy == [ip |-> "", port |-> "", username |-> Undefined, password |-> Undefined]
Null == [kind |-> "null", proxy |-> NoProxy]
UndefinedValue == [kind |-> "undefined", proxy |-> NoProxy]
Entry(p) == [kind |-> "proxy", proxy |-> p]

\* lines 380-393: the pool entry built from a proxy string
ProxyObj(proxy) ==
  [ip |-> proxy[1], port |-> proxy[2],
   username |-> IF Len(proxy) >= 4 THEN proxy[3] ELSE Undefined,
   password |-> IF Len(proxy) >= 4 THEN proxy[4] ELSE Undefined]

-----------------------------------------------------------------------------
(* Validation cache: a Map keeps insertion order; set() on a present key
   keeps its position. *)
CacheHas(cache, key) == \E k \in 1..Len(cache) : cache[k].key = key
CacheIdx(cache, key) == CHOOSE k \in 1..Len(cache) : cache[k].key = key
CacheGet(cache, key) == cache[CacheIdx(cache, key)]
CacheSet(cache, key, valid, t) ==
  LET e == [key |-> key, valid |-> valid, timestamp |-> t]
  IN IF CacheHas(cache, key) THEN [cache EXCEPT ![CacheIdx(cache, key)] = e]
     ELSE Append(cache, e)

\* line 304: the freshness test of the cache-first pass
CachedFresh(data, t) == t - data.timestamp < cacheExpiry

\* line 501: the freshness test at dispatch
isFreshStale(cachedResult, t) == (t - cachedResult.timestamp) <= cacheExpiry
isFresh(cachedResult, t) == (t - cachedResult.timestamp) < cacheExpiry

\* lines 303-311: the keys selected by tryUsingCachedProxies
RECURSIVE SelectCached(_, _, _, _, _)
SelectCached(cache, k, neededProxies, t, cachedProxies) ==
  IF k > Len(cache) THEN cachedProxies
  ELSE IF CachedFresh(cache[k], t) /\ cache[k].valid
       THEN LET pushed == Append(cachedProxies, cache[k].key)
            IN IF Len(pushed) >= neededProxies THEN pushed
               ELSE SelectCached(cache, k + 1, neededProxies, t, pushed)
       ELSE SelectCached(cache, k + 1, neededProxies, t, cachedProxies)

-----------------------------------------------------------------------------
(* Pool store *)

\* lines 362-377 (and 329-346): is a proxy string already in the pool
ExistsNever(avail, proxy) == FALSE
Exists(avail, proxy) ==
  IF Len(proxy) >= 4
  THEN \E k \in 1..Len(avail) :
         /\ avail[k].ip = proxy[1] /\ avail[k].port = proxy[2]
         /\ avail[k].username = proxy[3] /\ avail[k].password = proxy[4]
  ELSE \E k \in 1..Len(avail) : avail[k].ip = proxy[1] /\ avail[k].port = proxy[2]

\* lines 327-348
filterExistingProxies(avail, proxies) ==
  LET isNew(p) == ~Exists(avail, p) IN SelectSeq(proxies, isNew)

\* lines 354-419: results is a sequence of [proxy, result]
RECURSIVE addValidProxiesFront(_, _, _, _, _)
addValidProxiesFront(avail, cache, results, k, t) ==
  IF k > Len(results) THEN [avail |-> avail, cache |-> cache]
  ELSE LET proxy == results[k].proxy IN
       IF results[k].result /\ ~Exists(avail, proxy)
       THEN LET avail2 == <<ProxyObj(proxy)>> \o avail
            IN IF Len(avail2) >= targetCount
               THEN [avail |-> avail2, cache |-> cache]
               ELSE addValidProxiesFront(avail2, cache, results, k + 1, t)
       ELSE addValidProxiesFront(avail, cache, results, k + 1, t)

RECURSIVE addValidProxies(_, _, _, _, _)
addValidProxies(avail, cache, results, k, t) ==
  IF k > Len(results) THEN [avail |-> avail, cache |-> cache]
  ELSE LET proxy == results[k].proxy IN
       IF results[k].result
       THEN IF ~Exists(avail, proxy)
            THEN LET avail2 == Append(avail, ProxyObj(proxy))
                     cache2 == IF useCache THEN CacheSet(cache, proxy, TRUE, t) ELSE cache
                 IN IF Len(avail2) >= targetCount
                    THEN [avail |-> avail2, cache |-> cache2]
                    ELSE addValidProxies(avail2, cache2, results, k + 1, t)
            ELSE addValidProxies(avail, cache, results, k + 1, t)
       ELSE addValidProxies(avail,
                            IF useCache THEN CacheSet(cache, proxy, FALSE, t) ELSE cache,
                            results, k + 1, t)

\* lines 448-453: the proxy string of a parsed line
EncodeLine(rec) ==
  IF rec.username # "" /\ rec.password # ""
  THEN <<rec.ip, rec.port, rec.username, rec.password>>
  ELSE <<rec.ip, rec.port>>

\* lines 444-458: a line that JSON.parse rejects (the catch of line 455) or that
\* lacks ip or port is skipped
RECURSIVE ParseLinesAbort(_, _)
ParseLinesAbort(lines, k) ==
  IF k > Len(lines) THEN <<>>
  ELSE IF lines[k].json /\ lines[k].ip # "" /\ lines[k].port # ""
       THEN <<EncodeLine(lines[k])>> \o ParseLinesAbort(lines, k + 1)
       ELSE <<>>

RECURSIVE ParseLines(_, _)
ParseLines(lines, k) ==
  IF k > Len(lines) THEN <<>>
  ELSE IF lines[k].json /\ lines[k].ip # "" /\ lines[k].port # ""
       THEN <<EncodeLine(lines[k])>> \o ParseLines(lines, k + 1)
       ELSE ParseLines(lines, k + 1)

-----------------------------------------------------------------------------
(* Progress bar *)

\* lines 106-153.  The progress string is determined by the numbers it prints,
\* `${current}/${total}`; <<>> is the empty string.  Clearing the previous line
\* calls process.stdout.clearLine, which exists only when stdout is a TTY.
showProgress(last, current, total) ==
  IF ~showProgressBar THEN [last |-> last, threw |-> FALSE]
  ELSE LET progressString == <<Min(current, total), total>> IN
       IF progressString = last THEN [last |-> last, threw |-> FALSE]
       ELSE IF last # <<>> /\ ~stdoutIsTTY THEN [last |-> last, threw |-> TRUE]
       ELSE [last |-> progressString, threw |-> FALSE]

\* lines 491-493: Math.floor(progressCurrent + min(1, i/len) * 0.2 * (targetCount - progressCurrent))
testProgress(prog, i, len) == (5 * len * prog + i * (targetCount - prog)) \div (5 * len)

-----------------------------------------------------------------------------
(* The refill cycle.  A world w holds the fields a synchronous stretch of the
   cycle reads and writes: avail, cache, last (lastProgressString), prog
   (progressCurrent), refilling, exit, threw (the call of refillProxies threw),
   and ctx, the locals of the activation:
     pc               "idle", "cachepass" (await at 225, tryUsingCachedProxies
                      has returned), "fetching" (await at 243), "probing"
                      (await at 514), "delay" (await at 247 or 279)
     phase            which caller of testProxiesConcurrently: "cache" or "fetch"
     attempts         line 217
     requested        the count sent to the provider (line 430)
     proxies, i, slots, results, remainingNeeded
                      the locals of testProxiesConcurrently; slots holds the
                      promises of the sub-batch in flight: "P" pending probe,
                      "T"/"F" resolved
     probed           indexes of proxies for which testProxy was called *)

IdleCtx == [pc |-> "idle", phase |-> "none", attempts |-> 0, requested |-> 0,
            proxies |-> <<>>, i |-> 0, slots |-> <<>>, results |-> <<>>,
            remainingNeeded |-> 0, probed |-> {}]

\* line 482
subBatchSize == Min(concurrentRequests * 2, 20)

\* lines 284-291
Finally(w, how) == [w EXCEPT !.refilling = FALSE, !.exit = how, !.ctx = IdleCtx]

\* lines 282-283
Caught(w) == Finally(w, "caught")

\* lines 428-430
actualCountUncapped(count) == IF count # 0 THEN count ELSE batchSize
actualCount(count) == Min(IF count # 0 THEN count ELSE batchSize, ProviderMaxCount)

\* lines 239-240
batchSizeNeeded(target, batch, poolSize) == Max(batch, (target - poolSize) * 2)

\* line 233: the loop test
LoopContinuesNoBudget(avail, attempts) == Len(avail) < targetCount
LoopContinues(avail, attempts) == Len(avail) < targetCount /\ attempts < maxRefillAttempts

\* lines 233-243: the loop head, up to the await of the provider request
LoopHead(w) ==
  IF LoopContinues(w.avail, w.ctx.attempts)
  THEN LET needed == batchSizeNeeded(targetCount, batchSize, Len(w.avail))
       IN [w EXCEPT !.ctx = [IdleCtx EXCEPT !.pc = "fetching",
                                            !.attempts = w.ctx.attempts + 1,
                                            !.requested = actualCount(needed)]]
  ELSE Finally(w, IF Len(w.avail) >= targetCount THEN "target" ELSE "budget")

\* lines 227-243: refillProxies resumes after the await of line 225
AfterCachePass(w) ==
  LET shown == showProgress(w.last, Len(w.avail), targetCount)
      w1 == [w EXCEPT !.prog = Len(w.avail), !.last = shown.last]
  IN IF shown.threw THEN Caught(w1) ELSE LoopHead(w1)

\* testProxiesConcurrently returns (line 526) to its caller: lines 318-319 for
\* the cache-first pass, after which tryUsingCachedProxies returns and
\* refillProxies is still suspended at line 225; lines 266-281 for a fetch attempt
TestReturn(w) ==
  LET added == addValidProxies(w.avail, w.cache, w.ctx.results, 1, now)
      w1 == [w EXCEPT !.avail = added.avail, !.cache = added.cache]
  IN IF w.ctx.phase = "cache" THEN [w1 EXCEPT !.ctx.pc = "cachepass"]
     ELSE LET shown == showProgress(w1.last, Len(w1.avail), targetCount)
              w2 == [w1 EXCEPT !.prog = Len(w1.avail), !.last = shown.last]
          IN IF shown.threw THEN Caught(w2)
             ELSE IF Len(w2.avail) >= targetCount THEN Finally(w2, "target")
             ELSE [w2 EXCEPT !.ctx.pc = "delay"]

\* lines 499-507: the outcome taken from the cache instead of a probe, "P" if none
CacheHit(cache, proxy) ==
  IF useCache /\ CacheHas(cache, proxy) /\ isFresh(CacheGet(cache, proxy), now)
  THEN IF CacheGet(cache, proxy).valid THEN "T" ELSE "F"
  ELSE "P"

\* lines 485-514: one iteration of the sub-batch loop, up to the await
Dispatch(w) ==
  IF w.ctx.i >= Len(w.ctx.proxies) THEN TestReturn(w)
  ELSE LET shown == showProgress(w.last,
                                 testProgress(w.prog, w.ctx.i, Len(w.ctx.proxies)),
                                 targetCount)
           batch == SubSeq(w.ctx.proxies, w.ctx.i + 1,
                           Min(w.ctx.i + subBatchSize, Len(w.ctx.proxies)))
           slots == [k \in 1..Len(batch) |-> CacheHit(w.cache, batch[k])]
       IN IF shown.threw THEN Caught(w)
          ELSE [w EXCEPT !.last = shown.last, !.ctx.pc = "probing", !.ctx.slots = slots,
                         !.ctx.probed = @ \cup { w.ctx.i + k : k \in { j \in 1..Len(batch) : slots[j] = "P" } }]

\* lines 477-483
TestStart(w, proxies, phase) ==
  Dispatch([w EXCEPT !.ctx.phase = phase, !.ctx.proxies = proxies, !.ctx.i = 0,
                     !.ctx.slots = <<>>, !.ctx.results = <<>>, !.ctx.probed = {},
                     !.ctx.remainingNeeded = targetCount - Len(w.avail)])

\* lines 518-521: the early exit of the sub-batch loop
EnoughFoundNever(results, remainingNeeded) == FALSE
EnoughFound(results, remainingNeeded) ==
  Cardinality({ k \in 1..Len(results) : results[k].result }) >= remainingNeeded

\* lines 514-522: Promise.all of the sub-batch has resolved
BatchResolvedRejecting(w) ==
  LET c == w.ctx
      batchResults == [k \in 1..Len(c.slots) |->
                         [proxy |-> c.proxies[c.i + k], result |-> c.slots[k] = "T"]]
      results == c.results \o batchResults
      w1 == [w EXCEPT !.ctx.results = results, !.ctx.slots = <<>>]
  IN IF \E k \in 1..Len(c.slots) : c.slots[k] = "F" THEN Caught(w)
     ELSE IF EnoughFound(results, c.remainingNeeded) THEN TestReturn(w1)
     ELSE Dispatch([w1 EXCEPT !.ctx.i = @ + subBatchSize])
BatchResolved(w) ==
  LET c == w.ctx
      batchResults == [k \in 1..Len(c.slots) |->
                         [proxy |-> c.proxies[c.i + k], result |-> c.slots[k] = "T"]]
      results == c.results \o batchResults
      w1 == [w EXCEPT !.ctx.results = results, !.ctx.slots = <<>>]
  IN IF EnoughFound(results, c.remainingNeeded) THEN TestReturn(w1)
     ELSE Dispatch([w1 EXCEPT !.ctx.i = @ + subBatchSize])

\* line 514: Promise.all resolves when every promise of the sub-batch has
allResolvedAny(slots) == TRUE
allResolved(slots) == \A k \in 1..Len(slots) : slots[k] # "P"

\* line 207: the single-flight guard
AlreadyRefillingNever(refilling) == FALSE
AlreadyRefilling(refilling) == refilling

\* lines 206-243: refillProxies from its call to its first await, which is
\* line 225 whenever the cache is enabled and holds an entry (lines 298-319 run
\* inside it up to the await of testProxiesConcurrently or to the return)
StartCycle(w) ==
  IF AlreadyRefilling(w.refilling) THEN w
  ELSE LET shown == showProgress(w.last, Len(w.avail), targetCount)
           w1 == [w EXCEPT !.refilling = TRUE, !.prog = Len(w.avail), !.last = shown.last]
           w2 == [w1 EXCEPT !.ctx = IdleCtx]
           neededProxies == targetCount - Len(w.avail)
       IN IF shown.threw THEN [w1 EXCEPT !.exit = "escaped", !.threw = TRUE]
          ELSE IF useCache /\ Len(w.cache) > 0
               THEN LET cachedProxies == SelectCached(w.cache, 1, neededProxies, now, <<>>)
                    IN IF Len(cachedProxies) > 0
                       THEN TestStart(w2, cachedProxies, "cache")
                       ELSE [w2 EXCEPT !.ctx.pc = "cachepass"]
               ELSE LoopHead(w2)

\* lines 195-200
checkAndRefill(w) ==
  IF Len(w.avail) <= minThreshold /\ ~w.refilling THEN StartCycle(w) ELSE w

-----------------------------------------------------------------------------
(* Cookie rotation: CookieManager (src/CookieManager.js) and the module-level
   currentCookieData its callers share (src/unnamed/part_000, line 779) *)

NoCookie == "null"

\* the userIds of the entries cookieManager.initialize has loaded; each entry
\* has its own cookie, so a userId stands for the cookie too
CookieUsers == <<"u1", "u2", "u3">>

RequestIds == 1..MaxRequests

\* a request through the pool that is not in flight
IdleRelay == [pc |-> "idle", proxy |-> Null]

\* no initialize or validate call is suspended: the calls that are, in the
\* order they started, are records of their kind and the cookies they have yet
\* to ask fetchNotionIds about
NoCalls == <<>>
IdleRequest == [pc |-> "idle", cookie |-> NoCookie]

\* a second cookie of the user u1, and the userId fetchNotionIds reports for a
\* cookie (CookieManager.js, lines 119-127)
SecondCookie == "u1b"
userIdOf(entry) == IF entry = SecondCookie THEN "u1" ELSE entry

\* what getNext leaves its caller with when it reads a missing entry: line 370
\* throws a TypeError on entry.lastUsed
MissingEntry == "TypeError"

\* CookieManager.getNext, lines 359-377: the entry returned and the index left
getNext(entries, index) ==
  IF ~initialized \/ Len(entries) = 0 THEN [value |-> NoCookie, index |-> index]
  ELSE IF index < Len(entries)
       THEN [value |-> entries[index + 1], index |-> (index + 1) % Len(entries)]
       ELSE [value |-> MissingEntry, index |-> (index + 1) % Len(entries)]

\* the sequence without its k-th element
RemoveAt(seq, k) == SubSeq(seq, 1, k - 1) \o SubSeq(seq, k + 1, Len(seq))

\* CookieManager.markAsInvalid, lines 384-398: the first entry with the userId
\* is flagged and filtered out.  The variant before it flags the entry without filtering.
markAsInvalidFlagOnly(entries, index, userId) ==
  [entries |-> entries, index |-> IF Len(entries) > 0 THEN 0 ELSE index]

markAsInvalid(entries, index, userId) ==
  IF \E k \in 1..Len(entries) : userIdOf(entries[k]) = userId
  THEN LET found == CHOOSE k \in 1..Len(entries) :
                      /\ userIdOf(entries[k]) = userId
                      /\ \A j \in 1..(k - 1) : userIdOf(entries[j]) # userId
           filtered == RemoveAt(entries, found)
       IN [entries |-> filtered, index |-> IF Len(filtered) > 0 THEN 0 ELSE index]
  ELSE [entries |-> entries, index |-> index]

\* CookieManager.getValidCount, lines 404-406: invalid entries are filtered out
\* as soon as they are marked, so every entry is valid
getValidCount(entries) == Len(entries)

-----------------------------------------------------------------------------
(* State *)

\* the cookie manager after the server's initialize (part_000, lines
\* 1585-1592): the cookies are loaded and the first one is current
Loaded(entries) ==
  /\ cookieEntries = entries
  /\ cookieIndex = 1 % Len(entries)
  /\ currentCookieData = entries[1]
  /\ initialized = TRUE
  /\ cmCalls = NoCalls

\* no request is in flight
NoRequests ==
  /\ requests = [r \in RequestIds |-> IdleRequest]
  /\ moduleProxy = Null
  /\ acquired = [r \in RequestIds |-> IdleRelay]

\* ProxyServer after construction (part_001, lines 25-33)
NotStarted ==
  /\ proxyProcess = 0
  /\ logStream = 0
  /\ processes = <<>>
  /\ startCalls = {}

\* the pool after construction, with the state of its callers
PoolFresh ==
  /\ availableProxies = <<>>
  /\ currentIndex = 0
  /\ proxyCache = <<>>
  /\ isRefilling = FALSE
  /\ isInitialized = FALSE
  /\ checkTimer = 0
  /\ timers = {}
  /\ timersCreated = 0
  /\ stopped = FALSE
  /\ progressCurrent = 0
  /\ lastProgressString = <<>>
  /\ cycles = [c \in CycleIds |-> IdleCtx]
  /\ initWait = [c \in 0..MaxCycles |-> 0]
  /\ now = 0
  /\ lastExit = "none"
  /\ snapshot = <<>>
  /\ snapshotShared = FALSE
  /\ callThrew = FALSE
  /\ completion = [c \in CycleIds |-> <<>>]
  /\ useCache = TRUE /\ cacheExpiry = DefaultCacheExpiry
  /\ showProgressBar = FALSE /\ stdoutIsTTY = TRUE

Fresh ==
  /\ availableProxies = <<>>
  /\ currentIndex = 0
  /\ proxyCache = <<>>
  /\ isRefilling = FALSE
  /\ isInitialized = FALSE
  /\ checkTimer = 0
  /\ timers = {}
  /\ timersCreated = 0
  /\ stopped = FALSE
  /\ progressCurrent = 0
  /\ lastProgressString = <<>>
  /\ cycles = [c \in CycleIds |-> IdleCtx]
  /\ initWait = [c \in 0..MaxCycles |-> 0]
  /\ now = 0
  /\ lastExit = "none"
  /\ snapshot = <<>>
  /\ snapshotShared = FALSE
  /\ callThrew = FALSE
  /\ completion = [c \in CycleIds |-> <<>>]
  /\ Loaded(CookieUsers)
  /\ NoRequests
  /\ NotStarted

\* the state after construction (lines 26-72), for the configurations modelled
Init ==
  /\ Fresh /\ useCache \in BOOLEAN /\ cacheExpiry = DefaultCacheExpiry
  /\ showProgressBar = FALSE /\ stdoutIsTTY = TRUE

InitProgress ==
  /\ Fresh /\ useCache = TRUE /\ cacheExpiry = DefaultCacheExpiry
  /\ showProgressBar = TRUE /\ stdoutIsTTY \in BOOLEAN

\* stdoutIsTTY is read only when the progress bar is shown
InitScheduler ==
  /\ Fresh /\ useCache = TRUE /\ cacheExpiry = DefaultCacheExpiry
  /\ showProgressBar \in BOOLEAN /\ stdoutIsTTY \in BOOLEAN
  /\ ~showProgressBar => stdoutIsTTY

\* the activation record a new call of refillProxies gets; 0 when none is left
NewCtx ==
  IF \E c \in CycleIds : cycles[c].pc = "idle"
  THEN CHOOSE c \in CycleIds :
         cycles[c].pc = "idle" /\ \A d \in CycleIds : cycles[d].pc = "idle" => c <= d
  ELSE 0

World(c) ==
  [avail |-> availableProxies, cache |-> proxyCache, last |-> lastProgressString,
   prog |-> progressCurrent, refilling |-> isRefilling, exit |-> lastExit,
   ctx |-> cycles[c], threw |-> FALSE]

\* the fields of w written back; initialize() calls that await activation c
\* become ready when it has ended
Commit(w, c) ==
  /\ availableProxies' = w.avail
  /\ proxyCache' = w.cache
  /\ lastProgressString' = w.last
  /\ progressCurrent' = w.prog
  /\ isRefilling' = w.refilling
  /\ lastExit' = w.exit
  /\ cycles' = [cycles EXCEPT ![c] = w.ctx]

Settle(w, c) ==
  IF cycles[c].pc # "idle" /\ w.ctx.pc = "idle"
  THEN [initWait EXCEPT ![0] = @ + initWait[c], ![c] = 0]
  ELSE initWait

config == <<useCache, cacheExpiry, showProgressBar, stdoutIsTTY>>
scheduler == <<isInitialized, checkTimer, timers, timersCreated, stopped>>
calls == <<snapshot, snapshotShared, callThrew, completion>>
cookies == <<cookieEntries, cookieIndex, currentCookieData, requests>>
relay == <<moduleProxy, acquired>>
manager == <<initialized, cmCalls>>
server == <<proxyProcess, logStream, processes, startCalls>>

-----------------------------------------------------------------------------
(* Public operations *)

\* lines 593-604: the value getProxy returns, and the cursor it leaves
getProxyValue(avail, index) ==
  IF Len(avail) = 0 THEN Null
  ELSE IF index < Len(avail) THEN Entry(avail[index + 1]) ELSE UndefinedValue

getProxyIndex(avail, index) ==
  IF Len(avail) = 0 THEN index ELSE (index + 1) % Len(avail)

GetProxy ==
  /\ currentIndex' = getProxyIndex(availableProxies, currentIndex)
  /\ UNCHANGED <<availableProxies, proxyCache, isRefilling, progressCurrent,
                 lastProgressString, cycles, initWait, now, lastExit, config, relay, manager, server, cookies, calls, scheduler>>

\* lines 629-631
removeFilter(avail, ip, portStr) ==
  LET keep(p) == ~(p.ip = ip /\ p.port = portStr) IN SelectSeq(avail, keep)

\* lines 633-636
clampIndex(index, len) == IF index >= len /\ len > 0 THEN 0 ELSE index

\* lines 621-627: the removed proxy is recorded as invalid under the key ip:port
markRemoved(cache, proxyToRemove, proxyKey, t) ==
  IF proxyToRemove /\ useCache THEN CacheSet(cache, proxyKey, FALSE, t) ELSE cache

\* lines 614, 638, 649: the value removeProxy returns
removed(avail, ip, portStr) == Len(avail) > Len(removeFilter(avail, ip, portStr))

\* line 613: port.toString() throws a TypeError when port is undefined (or null)
portToStringThrows(port) == port = Undefined

\* lines 612-650, with the synchronous part of checkAndRefill (line 647).  The
\* filter of line 629 assigns a new array to this.availableProxies, so an array
\* handed out before is no longer the pool's.
removeProxy(ip, port) ==
  IF portToStringThrows(port)
  THEN /\ callThrew' = TRUE
       /\ UNCHANGED <<availableProxies, currentIndex, proxyCache, isRefilling,
                      progressCurrent, lastProgressString, cycles, initWait, now,
                      lastExit, config, manager, server, scheduler, snapshot, snapshotShared,
                      completion>>
  ELSE
  LET portStr == port
      proxyToRemove == \E k \in 1..Len(availableProxies) :
                         availableProxies[k].ip = ip /\ availableProxies[k].port = portStr
      cache1 == markRemoved(proxyCache, proxyToRemove, <<ip, portStr>>, now)
      avail1 == removeFilter(availableProxies, ip, portStr)
      c == NewCtx
  IN /\ c # 0
     /\ LET w == checkAndRefill([World(c) EXCEPT !.avail = avail1, !.cache = cache1])
        IN Commit(w, c)
     /\ currentIndex' = clampIndex(currentIndex, Len(avail1))
     /\ snapshotShared' = FALSE
     /\ UNCHANGED <<initWait, now, config, manager, server, scheduler, snapshot, callThrew,
                    completion>>

\* a call of removeProxy from outside the request handlers
RemoveProxy(ip, port) == removeProxy(ip, port) /\ UNCHANGED <<cookies, relay>>

\* lines 671-687: the cache cleanupCache leaves at time t
cleanupCache(cache, t) ==
  LET kept(data) == ~(t - data.timestamp > cacheExpiry)
  IN IF ~useCache THEN cache ELSE SelectSeq(cache, kept)

CleanupCache ==
  /\ proxyCache' = cleanupCache(proxyCache, now)
  /\ UNCHANGED <<availableProxies, currentIndex, isRefilling, progressCurrent,
                 lastProgressString, cycles, initWait, now, lastExit, config, relay, manager, server, cookies, calls,
                 scheduler>>

\* line 657: the array getAllProxies returns, and whether it is the pool's own
getAllProxiesLive(avail) == [value |-> avail, shared |-> TRUE]
getAllProxies(avail) == [value |-> avail, shared |-> FALSE]

\* line 665
getCount(avail) == Len(avail)

\* lines 656-658
GetAllProxies ==
  /\ snapshot' = getAllProxies(availableProxies).value
  /\ snapshotShared' = getAllProxies(availableProxies).shared
  /\ UNCHANGED <<availableProxies, currentIndex, proxyCache, isRefilling, progressCurrent,
                 lastProgressString, cycles, initWait, now, lastExit, config, relay, manager, server, cookies, scheduler,
                 callThrew, completion>>

\* the caller of getAllProxies removes the last element of the array it got, or
\* adds one to it
MutateSnapshot ==
  /\ \/ Len(snapshot) > 0 /\ snapshot' = SubSeq(snapshot, 1, Len(snapshot) - 1)
     \/ Len(snapshot) < MaxSnapshot /\ snapshot' = Append(snapshot, ProxyObj(<<"c", "80">>))
  /\ availableProxies' = IF snapshotShared THEN snapshot' ELSE availableProxies
  /\ UNCHANGED <<currentIndex, proxyCache, isRefilling, progressCurrent,
                 lastProgressString, cycles, initWait, now, lastExit, config, relay, manager, server, cookies, scheduler,
                 snapshotShared, callThrew, completion>>

\* lines 206-233: a direct call of refillProxies
RefillProxies ==
  LET c == NewCtx
  IN /\ c # 0
     /\ Commit(StartCycle(World(c)), c)
     /\ UNCHANGED <<currentIndex, initWait, now, config, relay, manager, server, cookies, calls, scheduler>>

\* the initialize() calls suspended at line 169, over the activations 0..c
RECURSIVE Waiting(_)
Waiting(c) == IF c < 0 THEN 0 ELSE initWait[c] + Waiting(c - 1)

\* lines 159-169: initialize up to its await
Initialize ==
  /\ IF isInitialized
     THEN UNCHANGED <<availableProxies, proxyCache, isRefilling, progressCurrent,
                      lastProgressString, cycles, initWait, lastExit, stopped>>
     ELSE LET c == NewCtx
              w == StartCycle([World(c) EXCEPT !.prog = 0])
              awaited == IF w.ctx.pc # "idle" THEN c ELSE 0
          IN /\ c # 0
             /\ Waiting(MaxCycles) < MaxInit
             /\ Commit(w, c)
             /\ initWait' = IF w.threw THEN initWait
                            ELSE [initWait EXCEPT ![awaited] = @ + 1]
             /\ stopped' = FALSE
  /\ UNCHANGED <<currentIndex, now, config, relay, manager, server, cookies, calls, isInitialized, checkTimer, timers, timersCreated>>

\* lines 171-178: initialize after its await
InitializeResume ==
  /\ initWait[0] > 0
  /\ initWait' = [initWait EXCEPT ![0] = @ - 1]
  /\ timersCreated' = timersCreated + 1
  /\ checkTimer' = timersCreated + 1
  /\ timers' = timers \cup {timersCreated + 1}
  /\ isInitialized' = TRUE
  /\ lastProgressString' = showProgress(lastProgressString, Len(availableProxies), targetCount).last
  /\ UNCHANGED <<availableProxies, currentIndex, proxyCache, isRefilling, progressCurrent,
                 cycles, now, lastExit, config, relay, manager, server, cookies, calls, stopped>>

\* lines 184-190
Stop ==
  /\ IF checkTimer # 0
     THEN timers' = timers \ {checkTimer} /\ checkTimer' = 0
     ELSE UNCHANGED <<timers, checkTimer>>
  /\ stopped' = TRUE
  /\ UNCHANGED <<availableProxies, currentIndex, proxyCache, isRefilling, isInitialized,
                 timersCreated, progressCurrent, lastProgressString, cycles, initWait,
                 now, lastExit, config, relay, manager, server, cookies, calls>>

\* line 172: the interval timer fires and calls checkAndRefill (lines 195-200)
TimerTick ==
  LET c == NewCtx
  IN /\ timers # {}
     /\ c # 0
     /\ Commit(checkAndRefill(World(c)), c)
     /\ UNCHANGED <<currentIndex, initWait, now, config, relay, manager, server, cookies, calls, scheduler>>

-----------------------------------------------------------------------------
(* Requests to the upstream API (src/unnamed/part_000) *)

poolState == <<availableProxies, currentIndex, proxyCache, isRefilling, progressCurrent,
               lastProgressString, cycles, initWait, now, lastExit>>

\* streamNotionResponse, lines 955-1027: the request is built from
\* currentCookieData, or from the next cookie when there is none, and
\* fetchNotionResponse is called with its cookie.  Without a cookie line 960
\* throws; on a missing entry getNext has moved its index and throws before
\* the assignment of line 958.  Either way nothing is sent.
StartRequest(r) ==
  /\ requests[r].pc = "idle"
  /\ LET got == IF currentCookieData = NoCookie THEN getNext(cookieEntries, cookieIndex)
                ELSE [value |-> currentCookieData, index |-> cookieIndex]
     IN /\ cookieIndex' = got.index
        /\ IF got.value \in {NoCookie, MissingEntry}
           THEN UNCHANGED <<currentCookieData, requests>>
           ELSE /\ currentCookieData' = got.value
                /\ requests' = [requests EXCEPT ![r] = [pc |-> "sent", cookie |-> got.value]]
  /\ UNCHANGED <<cookieEntries, poolState, config, relay, manager, server, scheduler, calls>>

\* fetchNotionResponse, lines 1198-1229: the response has status 401.  The
\* current cookie is marked invalid and the next one becomes current; the
\* request is sent again with it.  The request fails when there is no current
\* cookie (line 1202 throws a TypeError), when getNext throws on a missing
\* entry (line 1204, after moving its index and before the assignment), and
\* when getNext returns null (line 1207 throws after the assignment).
Respond401(r) ==
  /\ requests[r].pc = "sent"
  /\ IF currentCookieData = NoCookie
     THEN /\ requests' = [requests EXCEPT ![r] = IdleRequest]
          /\ UNCHANGED <<cookieEntries, cookieIndex, currentCookieData>>
     ELSE LET marked == markAsInvalid(cookieEntries, cookieIndex, userIdOf(currentCookieData))
              next == getNext(marked.entries, marked.index)
          IN /\ cookieEntries' = marked.entries
             /\ cookieIndex' = next.index
             /\ IF next.value = MissingEntry
                THEN /\ requests' = [requests EXCEPT ![r] = IdleRequest]
                     /\ UNCHANGED currentCookieData
                ELSE /\ currentCookieData' = next.value
                     /\ requests' = [requests EXCEPT ![r] =
                                       IF next.value = NoCookie THEN IdleRequest
                                       ELSE [pc |-> "sent", cookie |-> next.value]]
  /\ UNCHANGED <<poolState, config, relay, manager, server, scheduler, calls>>

\* lines 1231-1233 and 1485-1535: the fetch rejects, or the response has a
\* status that is neither 401 nor ok; the exception is rethrown by the catch of
\* line 1485 and the request is over, with the cookies as they are
RespondError(r) ==
  /\ requests[r].pc = "sent"
  /\ requests' = [requests EXCEPT ![r] = IdleRequest]
  /\ UNCHANGED <<cookieEntries, cookieIndex, currentCookieData, poolState, config, relay, manager,
                 server, scheduler, calls>>

\* lines 1232-1245: the response is ok and its body is being read
RespondOk(r) ==
  /\ requests[r].pc = "sent"
  /\ requests' = [requests EXCEPT ![r].pc = "reading"]
  /\ UNCHANGED <<cookieEntries, cookieIndex, currentCookieData, poolState, config, relay, manager, server,
                 scheduler, calls>>

\* lines 1318-1326: the end of the response stream.  With more than one valid
\* cookie the next one becomes current; when getNext throws on a missing entry
\* it has moved its index, the assignment of line 1324 does not happen and the
\* handler's try block catches the exception.
StreamEnd(r) ==
  /\ requests[r].pc = "reading"
  /\ requests' = [requests EXCEPT ![r] = IdleRequest]
  /\ LET next == getNext(cookieEntries, cookieIndex)
     IN IF getValidCount(cookieEntries) > 1
        THEN /\ cookieIndex' = next.index
             /\ currentCookieData' = IF next.value = MissingEntry THEN currentCookieData
                                     ELSE next.value
        ELSE UNCHANGED <<currentCookieData, cookieIndex>>
  /\ UNCHANGED <<cookieEntries, poolState, config, relay, manager, server, scheduler, calls>>

\* lines 1436-1484: the body emits 'error' while it is read; the request is
\* over and the cookie is not switched
BodyError(r) ==
  /\ requests[r].pc = "reading"
  /\ requests' = [requests EXCEPT ![r] = IdleRequest]
  /\ UNCHANGED <<cookieEntries, cookieIndex, currentCookieData, poolState, config, relay, manager,
                 server, scheduler, calls>>

\* buildNotionRequest, lines 817-824, called by itself: without a current
\* cookie the next one is taken, and nothing is sent.  Line 822 throws when
\* there is none; on a missing entry getNext has moved its index and throws
\* before the assignment.
BuildNotionRequest ==
  /\ LET got == IF currentCookieData = NoCookie THEN getNext(cookieEntries, cookieIndex)
                ELSE [value |-> currentCookieData, index |-> cookieIndex]
     IN /\ cookieIndex' = got.index
        /\ currentCookieData' = IF got.value = MissingEntry THEN currentCookieData
                                ELSE got.value
  /\ UNCHANGED <<cookieEntries, requests, poolState, config, relay, manager, server, scheduler,
                 calls>>

\* fetchNotionResponse with USE_NATIVE_PROXY_POOL and ENABLE_PROXY_SERVER, lines
\* 1056-1171, from its call to its await: the module-level proxy is assigned
\* what getProxy returns and the request is sent through it.  Reading .full of
\* null (line 1166) or of undefined (line 1138) throws a TypeError and the
\* request fails unsent.
fetchNotionResponse(r) ==
  LET got == getProxyValue(availableProxies, currentIndex)
  IN /\ moduleProxy' = got
     /\ currentIndex' = getProxyIndex(availableProxies, currentIndex)
     /\ acquired' = [acquired EXCEPT ![r] =
                         IF got.kind = "proxy" THEN [pc |-> "sent", proxy |-> got]
                         ELSE IdleRelay]

\* a request through the pool: streamNotionResponse, lines 955-1027, takes the
\* current cookie, or the next one when there is none (line 960 throws without
\* one, and getNext throws on a missing entry after moving its index), and
\* calls fetchNotionResponse
AcquireProxy(r) ==
  /\ acquired[r].pc = "idle"
  /\ LET got == IF currentCookieData = NoCookie THEN getNext(cookieEntries, cookieIndex)
                ELSE [value |-> currentCookieData, index |-> cookieIndex]
     IN /\ cookieIndex' = got.index
        /\ IF got.value \in {NoCookie, MissingEntry}
           THEN UNCHANGED <<currentCookieData, currentIndex, relay>>
           ELSE currentCookieData' = got.value /\ fetchNotionResponse(r)
  /\ UNCHANGED <<availableProxies, proxyCache, isRefilling, progressCurrent,
                 lastProgressString, cycles, initWait, now, lastExit, config,
                 cookieEntries, requests, manager, server, calls, scheduler>>

\* lines 1198-1229 for a request through the pool: the response has status
\* 401.  The current cookie is marked invalid (line 1202 throws a TypeError
\* when there is none), the next one becomes current (line 1207 throws when
\* there is none), and fetchNotionResponse is called again (line 1217): it
\* takes the next proxy of the pool and sends the request through it.
RelayRespond401(r) ==
  /\ acquired[r].pc = "sent"
  /\ IF currentCookieData = NoCookie
     THEN /\ acquired' = [acquired EXCEPT ![r] = IdleRelay]
          /\ UNCHANGED <<cookieEntries, cookieIndex, currentCookieData, moduleProxy,
                         currentIndex>>
     ELSE LET marked == markAsInvalid(cookieEntries, cookieIndex, userIdOf(currentCookieData))
              next == getNext(marked.entries, marked.index)
          IN /\ cookieEntries' = marked.entries
             /\ cookieIndex' = next.index
             /\ IF next.value = MissingEntry
                THEN /\ acquired' = [acquired EXCEPT ![r] = IdleRelay]
                     /\ UNCHANGED <<currentCookieData, moduleProxy, currentIndex>>
                ELSE /\ currentCookieData' = next.value
                     /\ IF next.value = NoCookie
                        THEN /\ acquired' = [acquired EXCEPT ![r] = IdleRelay]
                             /\ UNCHANGED <<moduleProxy, currentIndex>>
                        ELSE fetchNotionResponse(r)
  /\ UNCHANGED <<availableProxies, proxyCache, isRefilling, progressCurrent,
                 lastProgressString, cycles, initWait, now, lastExit, config,
                 requests, manager, server, calls, scheduler>>

\* lines 1231-1233 and 1485-1535: the request to the helper fails, or the
\* response has another status that is not ok; the request fails and leaves the
\* cookies, the pool and the module-level proxy as they are
RelayRespondError(r) ==
  /\ acquired[r].pc = "sent"
  /\ acquired' = [acquired EXCEPT ![r] = IdleRelay]
  /\ UNCHANGED <<moduleProxy, cookies, poolState, config, manager, server, scheduler, calls>>

\* lines 1320-1326: the end handler switches to the next cookie when more than
\* one is valid.  When getNext throws on a missing entry it has moved its
\* index and the assignment of line 1324 does not happen.
SwitchCookie ==
  /\ LET next == getNext(cookieEntries, cookieIndex)
     IN IF getValidCount(cookieEntries) > 1
        THEN /\ cookieIndex' = next.index
             /\ currentCookieData' = IF next.value = MissingEntry THEN currentCookieData
                                     ELSE next.value
        ELSE UNCHANGED <<currentCookieData, cookieIndex>>
  /\ UNCHANGED <<cookieEntries, requests>>

\* lines 1318-1339, no content was received: the proxy the module-level
\* variable refers to is removed from the pool.  Nothing is removed when the
\* handler's try block is left before line 1338: getNext throws at line 1324,
\* or returns null and line 1325 reads .userId of it; and reading .ip of null
\* or undefined at line 1338 throws as well.
EndNoContent(r) ==
  /\ acquired[r].pc = "sent"
  /\ acquired' = [acquired EXCEPT ![r] = IdleRelay]
  /\ SwitchCookie
  /\ UNCHANGED moduleProxy
  /\ LET next == getNext(cookieEntries, cookieIndex)
         switchThrew == /\ getValidCount(cookieEntries) > 1
                        /\ next.value \in {NoCookie, MissingEntry}
     IN IF ~switchThrew /\ moduleProxy.kind = "proxy"
        THEN removeProxy(moduleProxy.proxy.ip, moduleProxy.proxy.port)
        ELSE UNCHANGED <<poolState, config, manager, server, scheduler, calls>>

\* lines 1318-1326 and 1352-1370, content was received: the cookie is switched
\* as above and the pool is left alone
EndContent(r) ==
  /\ acquired[r].pc = "sent"
  /\ acquired' = [acquired EXCEPT ![r] = IdleRelay]
  /\ SwitchCookie
  /\ UNCHANGED <<moduleProxy, poolState, config, manager, server, scheduler, calls>>

-----------------------------------------------------------------------------
(* The cookie manager under its own operations and the commands of
   src/cookie-cli.js, which work on the same cookieManager object.  The
   commands are awaited one after the other (cookie-cli.js, lines 257-283), so
   a command starts when no initialize or validate call is suspended.  The
   methods initialize, getNext and markAsInvalid test for no such call and run
   whenever they are called, also while calls are suspended. *)

Cookies == {"u1", "u2", "u3", SecondCookie}

rest == <<poolState, config, scheduler, calls, relay, server, requests>>

\* CookieManager.initialize, lines 96-116, from its call to the first
\* fetchNotionIds: the entries are emptied and the loop over the cookies
\* starts.  Nothing in it tests for a call that is under way.
CmInitialize(cookieArray) ==
  /\ Len(cmCalls) < MaxCalls
  /\ Len(cookieArray) > 0
  /\ cookieEntries' = <<>>
  /\ cmCalls' = Append(cmCalls, [kind |-> "initialize", todo |-> cookieArray])
  /\ UNCHANGED <<cookieIndex, currentCookieData, initialized, rest>>

\* validateCookies, cookie-cli.js lines 114-129: up to the first fetchNotionIds.
\* The command is examined for lists of up to MaxCookies entries.
CliValidate ==
  /\ cmCalls = NoCalls
  /\ initialized /\ Len(cookieEntries) > 0
  /\ Len(cookieEntries) <= MaxCookies
  /\ cookieEntries' = <<>>
  /\ cmCalls' = <<[kind |-> "validate", todo |-> cookieEntries]>>
  /\ UNCHANGED <<cookieIndex, currentCookieData, initialized, rest>>

\* fetchNotionIds has answered call k for the cookie at hand: the loop of
\* initialize (lines 118-137) or of validateCookies (lines 129-142) pushes the
\* cookie on success, onto the entries as they are now, and goes on to the next
\* one, or the call ends (lines 140-149 for initialize, line 144 for
\* validateCookies)
FetchedIds(k, success) ==
  /\ k \in 1..Len(cmCalls)
  /\ LET call == cmCalls[k]
         entries == IF success THEN Append(cookieEntries, Head(call.todo))
                    ELSE cookieEntries
         last == Len(call.todo) = 1
         done == last /\ call.kind = "initialize" /\ Len(entries) > 0
     IN /\ cookieEntries' = entries
        /\ cmCalls' = IF last THEN RemoveAt(cmCalls, k)
                      ELSE [cmCalls EXCEPT ![k].todo = Tail(@)]
        /\ initialized' = IF done THEN TRUE ELSE initialized
        /\ cookieIndex' = IF done THEN 0 ELSE cookieIndex
  /\ UNCHANGED <<currentCookieData, rest>>

\* addCookie, cookie-cli.js lines 80-110, once fetchNotionIds has succeeded for
\* the cookie: it is pushed, or initialize is called with it
CliAdd(cookie) ==
  /\ cmCalls = NoCalls
  /\ Len(cookieEntries) < MaxCookies
  /\ IF initialized
     THEN /\ cookieEntries' = Append(cookieEntries, cookie)
          /\ UNCHANGED <<cookieIndex, currentCookieData, initialized, cmCalls, rest>>
     ELSE CmInitialize(<<cookie>>)

\* removeCookie, cookie-cli.js lines 148-177, with a number in range
CliRemove(number) ==
  /\ cmCalls = NoCalls
  /\ initialized /\ Len(cookieEntries) > 0
  /\ number - 1 < Len(cookieEntries)
  /\ cookieEntries' = RemoveAt(cookieEntries, number)
  /\ cookieIndex' = IF Len(cookieEntries') > 0 THEN 0 ELSE cookieIndex
  /\ UNCHANGED <<currentCookieData, initialized, cmCalls, rest>>

\* a call currentCookieData = cookieManager.getNext(), made at any time; when
\* getNext throws the assignment does not happen
GetNext ==
  /\ LET next == getNext(cookieEntries, cookieIndex)
     IN /\ cookieIndex' = next.index
        /\ currentCookieData' = IF next.value = MissingEntry THEN currentCookieData
                                ELSE next.value
  /\ UNCHANGED <<cookieEntries, initialized, cmCalls, rest>>

\* a call cookieManager.markAsInvalid(userId), made at any time
MarkAsInvalid(userId) ==
  /\ LET marked == markAsInvalid(cookieEntries, cookieIndex, userId)
     IN cookieEntries' = marked.entries /\ cookieIndex' = marked.index
  /\ UNCHANGED <<currentCookieData, initialized, cmCalls, rest>>

-----------------------------------------------------------------------------
(* ProxyServer (src/unnamed/part_001), with ENABLE_PROXY_SERVER set and a
   platform other than windows.  A helper process is "running", "failed" (the
   spawn failed and its 'error' event is due), "stopping" (it was sent SIGTERM
   and its 'exit' event is due) or "dead" (its event has been delivered). *)

outside == <<poolState, config, scheduler, calls, relay, manager, cookies>>

\* start(), lines 79-148: with no process referenced, the log stream is opened,
\* the process is spawned, its handlers are registered and the call waits.
\* With a process referenced the call returns at line 87 and changes nothing.
Start(outcome) ==
  /\ proxyProcess = 0
  /\ Len(processes) < MaxSpawns
  /\ processes' = Append(processes, outcome)
  /\ proxyProcess' = Len(processes) + 1
  /\ logStream' = Len(processes) + 1
  /\ startCalls' = startCalls \cup {Len(processes) + 1}
  /\ UNCHANGED outside

\* lines 148-160: the wait of the start() call that spawned pid is over
StartResume(pid) ==
  /\ pid \in startCalls
  /\ startCalls' = startCalls \ {pid}
  /\ logStream' = IF proxyProcess # 0 /\ processes[proxyProcess] # "dead"
                  THEN logStream ELSE 0
  /\ UNCHANGED <<proxyProcess, processes, outside>>

\* stop(), lines 172-197; with no process referenced it returns at line 175
ServerStop ==
  /\ proxyProcess # 0
  /\ processes' = [processes EXCEPT ![proxyProcess] =
                      IF @ = "running" THEN "stopping" ELSE @]
  /\ proxyProcess' = 0
  /\ logStream' = 0
  /\ UNCHANGED <<startCalls, outside>>

\* lines 138-145: the 'exit' event of process pid, which ended by itself or
\* after SIGTERM
ExitEvent(pid) ==
  /\ pid \in 1..Len(processes)
  /\ processes[pid] \in {"running", "stopping"}
  /\ processes' = [processes EXCEPT ![pid] = "dead"]
  /\ proxyProcess' = 0
  /\ logStream' = 0
  /\ UNCHANGED <<startCalls, outside>>

\* lines 129-136: the 'error' event of process pid, whose spawn failed
ErrorEvent(pid) ==
  /\ pid \in 1..Len(processes)
  /\ processes[pid] = "failed"
  /\ processes' = [processes EXCEPT ![pid] = "dead"]
  /\ proxyProcess' = 0
  /\ logStream' = 0
  /\ UNCHANGED <<startCalls, outside>>

-----------------------------------------------------------------------------
(* Resumptions of a refill cycle *)

\* lines 426-470: what getProxiesFromProvider returns for the outcome of its
\* request: failed when axios.get rejects (network error, timeout), else the
\* status and the lines of the body; every status is accepted (line 436)
getProxiesFromProvider(response) ==
  IF response.failed THEN <<>>
  ELSE IF response.data # <<>> THEN ParseLines(response.data, 1)
  ELSE <<>>

\* line 243 resolves with the candidates; lines 245-263
FetchReturnedDelaying(c, proxies) ==
  /\ cycles[c].pc = "fetching"
  /\ LET w == World(c)
         newProxies == filterExistingProxies(w.avail, proxies)
         w1 == IF Len(newProxies) = 0 THEN [w EXCEPT !.ctx.pc = "delay"]
               ELSE TestStart(w, newProxies, "fetch")
     IN Commit(w1, c) /\ initWait' = Settle(w1, c)
  /\ UNCHANGED <<currentIndex, now, config, relay, manager, server, cookies, calls, scheduler>>

FetchReturned(c, proxies) ==
  /\ cycles[c].pc = "fetching"
  /\ LET w == World(c)
         newProxies == filterExistingProxies(w.avail, proxies)
         w1 == IF Len(proxies) = 0 THEN [w EXCEPT !.ctx.pc = "delay"]
               ELSE IF Len(newProxies) = 0 THEN LoopHead(w)
               ELSE TestStart(w, newProxies, "fetch")
     IN Commit(w1, c) /\ initWait' = Settle(w1, c)
  /\ UNCHANGED <<currentIndex, now, config, relay, manager, server, cookies, calls, scheduler>>

\* the provider answers with status 200 and the given lines
FetchDone(c, lines) ==
  FetchReturned(c, getProxiesFromProvider([failed |-> FALSE, status |-> 200, data |-> lines]))

\* the provider request ends in any way
ProviderReply(c, response) == FetchReturned(c, getProxiesFromProvider(response))

\* lines 509-511: one probe (testProxy, lines 534-587) resolves with its outcome
ProbeDone(c, k, valid) ==
  /\ cycles[c].pc = "probing"
  /\ k \in 1..Len(cycles[c].slots)
  /\ cycles[c].slots[k] = "P"
  /\ cycles' = [cycles EXCEPT ![c].slots[k] = IF valid THEN "T" ELSE "F"]
  /\ UNCHANGED <<availableProxies, currentIndex, proxyCache, isRefilling, progressCurrent,
                 lastProgressString, initWait, now, lastExit, config, relay, manager, server, cookies, calls, scheduler>>

\* line 514 resolves: every promise of the sub-batch has resolved
BatchDone(c) ==
  /\ cycles[c].pc = "probing"
  /\ allResolved(cycles[c].slots)
  /\ LET w == BatchResolved(World(c))
     IN /\ Commit(w, c) /\ initWait' = Settle(w, c)
        \* line 394 pushes onto the array this.availableProxies refers to
        /\ snapshot' = IF snapshotShared THEN w.avail ELSE snapshot
  /\ completion' = [completion EXCEPT ![c] = <<>>]
  /\ UNCHANGED <<currentIndex, now, config, relay, manager, server, cookies, scheduler, snapshotShared, callThrew>>

\* the await of line 225 resumes: lines 227-243, with the pool as it is then
CachePassDone(c) ==
  /\ cycles[c].pc = "cachepass"
  /\ LET w == AfterCachePass(World(c))
     IN Commit(w, c) /\ initWait' = Settle(w, c)
  /\ UNCHANGED <<currentIndex, now, config, relay, manager, server, cookies, calls, scheduler>>

\* the timeout of line 247 or 279 fires
DelayDone(c) ==
  /\ cycles[c].pc = "delay"
  /\ LET w == LoopHead(World(c))
     IN Commit(w, c) /\ initWait' = Settle(w, c)
  /\ UNCHANGED <<currentIndex, now, config, relay, manager, server, cookies, calls, scheduler>>

\* the same resumption, with the order of resolution recorded
ProbeDoneTraced(c, k, valid) ==
  /\ cycles[c].pc = "probing"
  /\ k \in 1..Len(cycles[c].slots)
  /\ cycles[c].slots[k] = "P"
  /\ cycles' = [cycles EXCEPT ![c].slots[k] = IF valid THEN "T" ELSE "F"]
  /\ completion' = [completion EXCEPT ![c] = Append(@, k)]
  /\ UNCHANGED <<availableProxies, currentIndex, proxyCache, isRefilling, progressCurrent,
                 lastProgressString, initWait, now, lastExit, config, relay, manager, server, cookies, scheduler,
                 snapshot, snapshotShared, callThrew>>

\* time passes, up to the age at which cache entries are examined
Elapse ==
  /\ now < MaxAge
  /\ now' = now + 1
  /\ UNCHANGED <<availableProxies, currentIndex, proxyCache, isRefilling, progressCurrent,
                 lastProgressString, cycles, initWait, lastExit, config, relay, manager, server, cookies, calls, scheduler>>

\* time passes: an entry written at 0 is stale from cacheExpiry on, and the
\* clock runs that far
AdvanceTime ==
  /\ now < cacheExpiry
  /\ now' = now + 1
  /\ UNCHANGED <<availableProxies, currentIndex, proxyCache, isRefilling, progressCurrent,
                 lastProgressString, cycles, initWait, lastExit, config, relay, manager, server, cookies, calls, scheduler>>

\* The pool, the cache and the refill cycle, triggered by direct calls of
\* refillProxies and by removeProxy
Next ==
  \/ GetProxy
  \/ \E a \in RemoveArgs : RemoveProxy(a[1], a[2])
  \/ RefillProxies
  \/ \E c \in CycleIds, lines \in ProviderResponses : FetchDone(c, lines)
  \/ \E c \in CycleIds, k \in 1..subBatchSize, valid \in BOOLEAN : ProbeDone(c, k, valid)
  \/ \E c \in CycleIds : BatchDone(c)
  \/ \E c \in CycleIds : CachePassDone(c)
  \/ \E c \in CycleIds : DelayDone(c)
  \/ AdvanceTime

Spec == Init /\ [][Next]_vars

\* The refill cycle with the progress bar shown, on a TTY or not
NextProgress ==
  \/ \E a \in RemoveArgs : RemoveProxy(a[1], a[2])
  \/ RefillProxies
  \/ \E c \in CycleIds, lines \in ProviderResponses : FetchDone(c, lines)
  \/ \E c \in CycleIds, k \in 1..subBatchSize, valid \in BOOLEAN : ProbeDone(c, k, valid)
  \/ \E c \in CycleIds : BatchDone(c)
  \/ \E c \in CycleIds : CachePassDone(c)
  \/ \E c \in CycleIds : DelayDone(c)

SpecProgress == InitProgress /\ [][NextProgress]_vars

\* The scheduler: initialize, stop and the timer ticks, with every other trigger
NextScheduler ==
  \/ \E a \in RemoveArgs : RemoveProxy(a[1], a[2])
  \/ RefillProxies
  \/ Initialize
  \/ InitializeResume
  \/ Stop
  \/ TimerTick
  \/ \E c \in CycleIds, lines \in SchedulerResponses : FetchDone(c, lines)
  \/ \E c \in CycleIds, k \in 1..subBatchSize, valid \in BOOLEAN : ProbeDone(c, k, valid)
  \/ \E c \in CycleIds : BatchDone(c)
  \/ \E c \in CycleIds : CachePassDone(c)
  \/ \E c \in CycleIds : DelayDone(c)

SpecScheduler == InitScheduler /\ [][NextScheduler]_vars

\* The callers of getProxy, removeProxy, getAllProxies and getCount, with any
\* arguments, while refill cycles run
InitCalls ==
  /\ Fresh /\ useCache = TRUE /\ cacheExpiry = DefaultCacheExpiry
  /\ showProgressBar = FALSE /\ stdoutIsTTY = TRUE

NextCalls ==
  \/ GetProxy
  \/ \E a \in RemoveArgsAny : RemoveProxy(a[1], a[2])
  \/ GetAllProxies
  \/ MutateSnapshot
  \/ RefillProxies
  \/ \E c \in CycleIds, lines \in CallerResponses : FetchDone(c, lines)
  \/ \E c \in CycleIds, k \in 1..subBatchSize, valid \in BOOLEAN : ProbeDone(c, k, valid)
  \/ \E c \in CycleIds : BatchDone(c)
  \/ \E c \in CycleIds : CachePassDone(c)
  \/ \E c \in CycleIds : DelayDone(c)

SpecCalls == InitCalls /\ [][NextCalls]_vars

\* Concurrent requests to the upstream API sharing the cookie manager
NextCookies ==
  \/ BuildNotionRequest
  \/ \E r \in RequestIds : StartRequest(r)
  \/ \E r \in RequestIds : Respond401(r)
  \/ \E r \in RequestIds : RespondError(r)
  \/ \E r \in RequestIds : RespondOk(r)
  \/ \E r \in RequestIds : StreamEnd(r)
  \/ \E r \in RequestIds : BodyError(r)

SpecCookies == InitCalls /\ [][NextCookies]_vars

\* A request that is never answered ok, every attempt of it being answered 401
\* unless it fails otherwise, next to requests that are answered any way.  The cookies loaded are distinct users' or include two
\* cookies of one user.  A response that is awaited arrives: weak fairness of
\* the victim's 401.
CookieLoads ==
  { CookieUsers, <<"u1", SecondCookie, "u2">>, <<SecondCookie, "u1">>, <<"u1">> }

Victim == 1

InitRetry ==
  /\ PoolFresh /\ NoRequests /\ NotStarted
  /\ \E entries \in CookieLoads : Loaded(entries)

NextRetry ==
  \/ BuildNotionRequest
  \/ \E r \in RequestIds : StartRequest(r)
  \/ \E r \in RequestIds : Respond401(r)
  \/ \E r \in RequestIds : RespondError(r)
  \/ \E r \in RequestIds \ {Victim} : RespondOk(r)
  \/ \E r \in RequestIds : StreamEnd(r)
  \/ \E r \in RequestIds : BodyError(r)

SpecRetry == InitRetry /\ [][NextRetry]_vars /\ WF_vars(Respond401(Victim))

\* The cookie manager from its construction (CookieManager.js, lines 21-27)
InitManager ==
  /\ PoolFresh /\ NoRequests /\ NotStarted
  /\ cookieEntries = <<>>
  /\ cookieIndex = 0
  /\ currentCookieData = NoCookie
  /\ initialized = FALSE
  /\ cmCalls = NoCalls

NextManager ==
  \/ \E cookieArray \in CookieLoads : CmInitialize(cookieArray)
  \/ CliValidate
  \/ \E k \in 1..MaxCalls, success \in BOOLEAN : FetchedIds(k, success)
  \/ \E cookie \in Cookies : CliAdd(cookie)
  \/ \E number \in 1..MaxCookies : CliRemove(number)
  \/ GetNext
  \/ \E cookie \in Cookies : MarkAsInvalid(userIdOf(cookie))

SpecManager == InitManager /\ [][NextManager]_vars

\* The helper process of ProxyServer and its events
InitServer ==
  /\ PoolFresh /\ NoRequests /\ NotStarted /\ Loaded(CookieUsers)

NextServer ==
  \/ \E outcome \in {"running", "failed"} : Start(outcome)
  \/ \E pid \in 1..MaxSpawns : StartResume(pid)
  \/ ServerStop
  \/ \E pid \in 1..MaxSpawns : ExitEvent(pid)
  \/ \E pid \in 1..MaxSpawns : ErrorEvent(pid)

SpecServer == InitServer /\ [][NextServer]_vars

\* Concurrent requests sent through proxies of the pool, in the program's
\* configuration USE_NATIVE_PROXY_POOL and ENABLE_PROXY_SERVER.  The state is
\* the one the program's initialize() (lines 1541-1617) leaves on a TTY: the
\* helper process runs, the cookies are loaded and the first one is current,
\* the progress bar is on (line 1603), and proxyPool.initialize() has filled the
\* pool with the provider's reply [a:80, b:80], armed the interval timer and
\* set isInitialized.
InitRelay ==
  /\ availableProxies = <<ProxyObj(<<"a", "80">>), ProxyObj(<<"b", "80">>)>>
  /\ proxyCache = <<[key |-> <<"a", "80">>, valid |-> TRUE, timestamp |-> 0],
                    [key |-> <<"b", "80">>, valid |-> TRUE, timestamp |-> 0]>>
  /\ progressCurrent = 2
  /\ lastExit = "target"
  /\ currentIndex = 0 /\ isRefilling = FALSE /\ isInitialized = TRUE
  /\ checkTimer = 1 /\ timers = {1} /\ timersCreated = 1 /\ stopped = FALSE
  /\ lastProgressString = <<2, 2>>
  /\ cycles = [c \in CycleIds |-> IdleCtx]
  /\ initWait = [c \in 0..MaxCycles |-> 0]
  /\ now = 0
  /\ snapshot = <<>> /\ snapshotShared = FALSE /\ callThrew = FALSE
  /\ completion = [c \in CycleIds |-> <<>>]
  /\ Loaded(CookieUsers)
  /\ NoRequests
  /\ proxyProcess = 1 /\ logStream = 1 /\ processes = <<"running">> /\ startCalls = {}
  /\ useCache = TRUE /\ cacheExpiry = DefaultCacheExpiry
  /\ showProgressBar = TRUE /\ stdoutIsTTY = TRUE

NextRelay ==
  \/ \E r \in RequestIds : AcquireProxy(r)
  \/ \E r \in RequestIds : RelayRespond401(r)
  \/ \E r \in RequestIds : RelayRespondError(r)
  \/ \E r \in RequestIds : EndNoContent(r)
  \/ \E r \in RequestIds : EndContent(r)
  \/ TimerTick
  \/ \E c \in CycleIds :
       \/ \E lines \in SchedulerResponses : FetchDone(c, lines)
       \/ \E k \in 1..subBatchSize, valid \in BOOLEAN : ProbeDone(c, k, valid)
       \/ BatchDone(c)
       \/ CachePassDone(c)
       \/ DelayDone(c)

SpecRelay == InitRelay /\ [][NextRelay]_vars

\* The provider client and the validation of its candidates: the request can
\* fail or be answered with any status and body
NextProvider ==
  \/ \E a \in RemoveArgs : RemoveProxy(a[1], a[2])
  \/ RefillProxies
  \/ \E c \in CycleIds, response \in ProviderReplies : ProviderReply(c, response)
  \/ \E c \in CycleIds, k \in 1..subBatchSize, valid \in BOOLEAN : ProbeDone(c, k, valid)
  \/ \E c \in CycleIds : BatchDone(c)
  \/ \E c \in CycleIds : CachePassDone(c)
  \/ \E c \in CycleIds : DelayDone(c)

SpecProvider == Init /\ [][NextProvider]_vars

\* The validation cache as its entries age: refill cycles, removals and
\* cleanupCache at any time, for the cacheExpiry options examined
InitCache ==
  /\ Fresh /\ useCache = TRUE /\ cacheExpiry \in DefaultCacheExpiry..MaxExpiry
  /\ showProgressBar = FALSE /\ stdoutIsTTY = TRUE

NextCache ==
  \/ \E a \in RemoveArgs : RemoveProxy(a[1], a[2])
  \/ RefillProxies
  \/ CleanupCache
  \/ Elapse
  \/ \E c \in CycleIds, lines \in CallerResponses : FetchDone(c, lines)
  \/ \E c \in CycleIds, k \in 1..subBatchSize, valid \in BOOLEAN : ProbeDoneTraced(c, k, valid)
  \/ \E c \in CycleIds : BatchDone(c)
  \/ \E c \in CycleIds : CachePassDone(c)
  \/ \E c \in CycleIds : DelayDone(c)

SpecCache == InitCache /\ [][NextCache]_vars

-----------------------------------------------------------------------------
(* Properties *)

\* the identity tuple by which the claims tell proxies apart; the comparisons of
\* the code are Exists, filterExistingProxies and removeFilter
Identity(p) == <<p.ip, p.port, p.username, p.password>>
ActiveCycles == { c \in CycleIds : cycles[c].pc # "idle" }
CountValid(results) == Cardinality({ k \in 1..Len(results) : results[k].result })

\* C1: the pool never holds two entries with the same identity (host, port,
\* username, password), whatever cycles, removals and acquisitions interleave,
\* also when one batch lists a candidate twice.
C1_Uniqueness ==
  \A i, j \in 1..Len(availableProxies) :
    Identity(availableProxies[i]) = Identity(availableProxies[j]) => i = j

\* an attempt has validated a batch listing one candidate twice, both valid, and
\* has inserted it
C1_Witness ==
  \E c \in CycleIds :
    /\ cycles[c].pc = "delay"
    /\ \E i, j \in 1..Len(cycles[c].results) :
         /\ i < j
         /\ cycles[c].results[i].proxy = cycles[c].results[j].proxy
         /\ cycles[c].results[i].result /\ cycles[c].results[j].result
         /\ \E k \in 1..Len(availableProxies) :
              availableProxies[k] = ProxyObj(cycles[c].results[i].proxy)

\* C2: whenever the pool is non-empty the cursor is a valid index, so getProxy
\* returns an entry of the pool; on an empty pool it returns null.
C2_CursorValid ==
  /\ Len(availableProxies) > 0 =>
       /\ currentIndex \in 0..(Len(availableProxies) - 1)
       /\ \E k \in 1..Len(availableProxies) :
            getProxyValue(availableProxies, currentIndex) = Entry(availableProxies[k])
  /\ Len(availableProxies) = 0 => getProxyValue(availableProxies, currentIndex) = Null

\* the values of n consecutive getProxy calls with no insertion or removal between
RECURSIVE GetProxyCalls(_, _, _)
GetProxyCalls(avail, index, n) ==
  IF n = 0 THEN <<>>
  ELSE <<getProxyValue(avail, index)>>
         \o GetProxyCalls(avail, getProxyIndex(avail, index), n - 1)

\* C3: with K >= 1 entries, K consecutive getProxy calls return every entry once,
\* in pool order from the cursor, the next call repeats the first, and each call
\* moves the cursor by one modulo K.
C3_RoundRobin ==
  LET K == Len(availableProxies)
      got == GetProxyCalls(availableProxies, currentIndex, K + 1)
  IN K >= 1 =>
       /\ \A j \in 1..K : got[j] = Entry(availableProxies[((currentIndex + j - 1) % K) + 1])
       /\ got[K + 1] = got[1]
       /\ getProxyIndex(availableProxies, currentIndex) = (currentIndex + 1) % K

\* C4: at most one refill cycle is active at any time, under every interleaving
\* of timer ticks, initialize, removeProxy and direct refillProxies calls; a
\* refillProxies call while isRefilling is true changes nothing, and the end of a
\* cycle starts no other cycle.
C4_SingleFlight ==
  /\ [](Cardinality(ActiveCycles) <= 1)
  /\ [][(isRefilling /\ RefillProxies) => UNCHANGED vars]_vars
  /\ [][(\E c \in CycleIds : cycles[c].pc # "idle" /\ cycles'[c].pc = "idle")
          => \A d \in CycleIds : cycles'[d].pc = "idle"]_vars

\* a cycle is suspended while the scheduler's timer is active and the pool is at
\* or below the threshold: every trigger can arrive now
C4_Witness ==
  /\ isRefilling /\ Cardinality(ActiveCycles) = 1
  /\ timers # {} /\ isInitialized
  /\ Len(availableProxies) <= minThreshold

\* C5: when no refill cycle is running isRefilling is false, and no exception
\* leaves refillProxies.
C5_FlagCleared ==
  /\ ActiveCycles = {} => ~isRefilling
  /\ lastExit # "escaped"

\* C6: a cycle issues at most maxRefillAttempts provider requests and ends
\* normally, without an exception, also with the pool below target.
C6_BoundedNormalEnd ==
  /\ \A c \in CycleIds : cycles[c].attempts <= maxRefillAttempts
  /\ lastExit # "escaped"
  /\ (ActiveCycles = {} /\ lastExit # "none") => ~isRefilling

\* C7: removeProxy(host, port) removes exactly one entry when one matches host
\* and port, keeps the others in order and returns true; else it returns false.
C7_RemovesOne ==
  [][\A a \in RemoveArgs :
       RemoveProxy(a[1], a[2]) =>
         LET matching == { k \in 1..Len(availableProxies) :
                             availableProxies[k].ip = a[1] /\ availableProxies[k].port = a[2] }
         IN IF matching # {}
            THEN /\ removed(availableProxies, a[1], a[2])
                 /\ Len(availableProxies') = Len(availableProxies) - 1
                 /\ \E k \in matching :
                      availableProxies' = SubSeq(availableProxies, 1, k - 1)
                                            \o SubSeq(availableProxies, k + 1, Len(availableProxies))
            ELSE /\ ~removed(availableProxies, a[1], a[2])
                 /\ availableProxies' = availableProxies]_vars

NoMatch(ip, port) ==
  \A k \in 1..Len(availableProxies) :
    ~(availableProxies[k].ip = ip /\ availableProxies[k].port = port)

\* C8: removeProxy with a host:port no entry has returns false and leaves the
\* pool, the cursor and the cache as they were when it returns, in every
\* reachable state.
C8_RemoveAbsent ==
  [][\A a \in RemoveArgs :
       (NoMatch(a[1], a[2]) /\ RemoveProxy(a[1], a[2])) =>
         /\ ~removed(availableProxies, a[1], a[2])
         /\ UNCHANGED <<availableProxies, currentIndex, proxyCache>>]_vars

Stale(cache, key, t) ==
  CacheHas(cache, key) /\ t - CacheGet(cache, key).timestamp >= cacheExpiry

\* a step in which activation c dispatches a sub-batch
Dispatched(c) ==
  /\ cycles'[c].pc = "probing"
  /\ cycles[c].pc # "probing" \/ cycles'[c].i # cycles[c].i

\* C9: a cache entry of age >= cacheExpiry is not honored while still in the map:
\* the cache-first pass does not select it, and a candidate with such an entry
\* is really probed at dispatch.
C9_StaleNotHonored ==
  [][\A c \in CycleIds :
       Dispatched(c) =>
         /\ \A k \in 1..Len(cycles'[c].slots) :
              Stale(proxyCache', cycles'[c].proxies[cycles'[c].i + k], now') =>
                /\ cycles'[c].slots[k] = "P"
                /\ (cycles'[c].i + k) \in cycles'[c].probed
         /\ cycles'[c].phase = "cache" =>
              \A k \in 1..Len(cycles'[c].proxies) :
                ~Stale(proxyCache', cycles'[c].proxies[k], now')]_vars

\* a probe is in flight for a candidate whose cache entry is present and stale
C9_Witness ==
  \E c \in CycleIds :
    /\ cycles[c].pc = "probing"
    /\ \E k \in 1..Len(cycles[c].slots) :
         /\ cycles[c].slots[k] = "P"
         /\ Stale(proxyCache, cycles[c].proxies[cycles[c].i + k], now)

\* C10: in a fetch attempt a sub-batch is dispatched only while the pool size at
\* the start of the validation plus the valid results so far is below
\* targetCount; the candidates after the sub-batch that reached it are not probed.
C10_EarlyExit ==
  \A c \in CycleIds :
    (cycles[c].phase = "fetch" /\ cycles[c].pc \in {"probing", "delay"}) =>
      LET x == cycles[c]
          poolAtStart == targetCount - x.remainingNeeded
      IN /\ x.probed \subseteq 1..(Len(x.results) + Len(x.slots))
         /\ x.pc = "probing" =>
              /\ Len(x.results) = x.i
              /\ poolAtStart + CountValid(x.results) < targetCount
         /\ (x.pc = "delay" /\ Len(x.results) < Len(x.proxies)) =>
              /\ poolAtStart + CountValid(x.results) >= targetCount
              /\ poolAtStart
                   + CountValid(SubSeq(x.results, 1, Len(x.results) - subBatchSize))
                   < targetCount

\* the sub-batch in flight has resolved with enough distinct valid candidates to
\* reach the target, and candidates of a later sub-batch remain
C10_Witness ==
  \E c \in CycleIds :
    LET x == cycles[c]
    IN /\ x.pc = "probing" /\ x.phase = "fetch"
       /\ x.i + Len(x.slots) < Len(x.proxies)
       /\ \A k \in 1..Len(x.slots) : x.slots[k] = "T"
       /\ Len(availableProxies) + Len(x.slots) >= targetCount
       /\ \A j, k \in 1..Len(x.slots) : x.proxies[x.i + j] = x.proxies[x.i + k] => j = k
       /\ \A k \in 1..Len(x.slots) : ~Exists(availableProxies, x.proxies[x.i + k])

\* a scheduler tick now would start a refill cycle (lines 172, 196)
TickWouldStart ==
  timers # {} /\ Len(availableProxies) <= minThreshold /\ ~isRefilling

\* C11: once stop() has returned no scheduler tick starts a refill cycle, also
\* when stop was called during initialize's first refill or after overlapping
\* initialize calls; stop leaves a cycle in flight to run on.
C11_StopCancels ==
  /\ [](stopped => ~TickWouldStart)
  /\ [][Stop => UNCHANGED <<cycles, isRefilling, availableProxies, proxyCache>>]_vars

\* C12: whatever initialize calls are made, sequential or overlapping, at most
\* one scheduler timer is active, the one checkTimer references, and a call made
\* while the initial refill runs starts no second cycle.
C12_InitializeIdempotent ==
  /\ [](Cardinality(timers) <= 1 /\ (checkTimer # 0 => timers = {checkTimer}))
  /\ [][(Initialize /\ isRefilling) => UNCHANGED cycles]_vars

\* C13: a scheduler tick starts a refill cycle exactly when the pool size is at
\* most minThreshold and no cycle is in flight, and changes no state otherwise
\* (so that a running scheduler with a low pool always gets a cycle started).
C13_TickStartsCycle ==
  [][TimerTick =>
       IF Len(availableProxies) <= minThreshold /\ ActiveCycles = {}
       THEN ActiveCycles' # {}
       ELSE UNCHANGED vars]_vars

\* C14: removeProxy makes the threshold check before it returns: when the pool
\* it leaves has at most minThreshold entries, fewer than targetCount, and no
\* cycle is in flight, a refill cycle has been started when removeProxy
\* returns: a cycle is in flight and isRefilling is true.
C14_RemoveTriggersRefill ==
  [][\A a \in RemoveArgs :
       RemoveProxy(a[1], a[2]) =>
         /\ availableProxies' = removeFilter(availableProxies, a[1], a[2])
         /\ (/\ Len(availableProxies') <= minThreshold
             /\ Len(availableProxies') < targetCount
             /\ ActiveCycles = {}) => (ActiveCycles' # {} /\ isRefilling')]_vars

\* C15: an attempt whose provider request returns no candidates is followed by
\* the retry delay and changes neither pool, cursor, cache nor flag; after the
\* delay the cycle requests again while attempts < maxRefillAttempts and
\* otherwise ends, without an exception and with isRefilling false: a cycle
\* that gets no candidates makes exactly maxRefillAttempts requests.
C15_EmptyProvider ==
  /\ [](\A c \in CycleIds : cycles[c].attempts <= maxRefillAttempts)
  /\ [][\A c \in CycleIds :
          FetchDone(c, <<>>) =>
            /\ cycles'[c].pc = "delay"
            /\ cycles'[c].attempts = cycles[c].attempts
            /\ UNCHANGED <<availableProxies, currentIndex, proxyCache, isRefilling, lastExit>>]_vars
  /\ [][\A c \in CycleIds :
          DelayDone(c) =>
            /\ UNCHANGED <<availableProxies, currentIndex, proxyCache>>
            /\ IF cycles[c].attempts < maxRefillAttempts
                  /\ Len(availableProxies) < targetCount
               THEN /\ cycles'[c].pc = "fetching"
                    /\ cycles'[c].attempts = cycles[c].attempts + 1
                    /\ UNCHANGED <<isRefilling, lastExit>>
               ELSE /\ cycles'[c].pc = "idle"
                    /\ ~isRefilling'
                    /\ lastExit' \in {"budget", "target"}]_vars

\* the last of maxRefillAttempts requests has returned nothing, as did the
\* earlier ones: pool and cache are still empty and the cycle is in its delay
C15_Witness ==
  /\ useCache /\ availableProxies = <<>> /\ proxyCache = <<>>
  /\ \E c \in CycleIds :
       cycles[c].pc = "delay" /\ cycles[c].attempts = maxRefillAttempts

\* the candidates whose identity (host, port, username, password) no pool entry
\* has: what C16 requires to be kept, against filterExistingProxies
NewIdentities(avail, proxies) ==
  LET isNew(p) == \A k \in 1..Len(avail) : Identity(avail[k]) # Identity(ProxyObj(p))
  IN SelectSeq(proxies, isNew)

\* C16: of the candidates a provider request returns, exactly those whose
\* identity is not in the pool go to validation: an already pooled identity is
\* not probed, every other candidate is kept.
C16_FilterByIdentity ==
  [][\A c \in CycleIds, lines \in ProviderResponses :
       FetchDone(c, lines) =>
         LET kept == NewIdentities(availableProxies, ParseLines(lines, 1))
         IN IF kept = <<>> THEN cycles'[c].pc # "probing"
            ELSE cycles'[c].pc = "probing" /\ cycles'[c].proxies = kept]_vars

\* C17: from an empty pool and cache, when the first provider request returns
\* targetCount distinct candidates and every probe succeeds, the pool then holds
\* exactly these candidates in order, and targetCount getProxy calls return each
\* once, the next one repeating the first.
C17_FillsInOneAttempt ==
  [][\A c \in CycleIds :
       (/\ BatchDone(c)
        /\ availableProxies = <<>> /\ proxyCache = <<>> /\ currentIndex = 0
        /\ cycles[c].phase = "fetch" /\ cycles[c].attempts = 1
        /\ Len(cycles[c].proxies) = targetCount
        /\ \A i, j \in 1..targetCount :
             cycles[c].proxies[i] = cycles[c].proxies[j] => i = j
        /\ \A k \in 1..Len(cycles[c].slots) : cycles[c].slots[k] = "T")
       =>
         /\ Len(availableProxies') = targetCount
         /\ \A k \in 1..targetCount :
              availableProxies'[k] = ProxyObj(cycles[c].proxies[k])
         /\ LET got == GetProxyCalls(availableProxies', currentIndex', targetCount + 1)
            IN /\ \A k \in 1..targetCount : got[k] = Entry(availableProxies'[k])
               /\ got[targetCount + 1] = got[1]]_vars

\* C18: getProxy, removeProxy and getAllProxies never throw, whatever host and
\* port they are given (absent or missing values too) and whether or not a
\* refill cycle is in flight.
C18_NeverThrows == ~callThrew

\* C19: getAllProxies returns the pool contents in pool order and changes
\* nothing; the array is a copy: insertions and removals in the pool leave it as
\* it is, and adding or removing its elements leaves the pool and the cursor as
\* they are; getCount is the pool length.
C19_Snapshot ==
  /\ [](getCount(availableProxies) = Len(availableProxies))
  /\ [][GetAllProxies => snapshot' = availableProxies]_vars
  /\ [][snapshot' # snapshot => (GetAllProxies \/ MutateSnapshot)]_vars
  /\ [][MutateSnapshot => UNCHANGED <<availableProxies, currentIndex>>]_vars

\* a snapshot with entries differs from the pool, which has entries too: the
\* pool or the snapshot has changed since the call
C19_Witness ==
  /\ Len(snapshot) > 0 /\ Len(availableProxies) > 0
  /\ snapshot # availableProxies

\* C20: when a request gets a 401, the cookie it was sent with is the one
\* removed from rotation, the others stay, and the request is sent again with
\* a cookie that is still valid, under every interleaving of requests.
C20_InvalidatesSentCookie ==
  [][\A r \in RequestIds :
       Respond401(r) =>
         LET sent == requests[r].cookie
             others(u) == u # sent
         IN /\ cookieEntries' = SelectSeq(cookieEntries, others)
            /\ cookieEntries' # <<>> =>
                 /\ requests'[r].pc = "sent"
                 /\ \E k \in 1..Len(cookieEntries') : requests'[r].cookie = cookieEntries'[k]]_vars

\* the pool entries of next that before does not hold
Inserted(before, next) ==
  { j \in 1..Len(next) : \A k \in 1..Len(before) : before[k] # next[j] }

\* a step in which a call of refillProxies starts activation c with the cache-first pass
CachePassStarted(c) == cycles[c].pc = "idle" /\ cycles'[c].phase = "cache"

\* C21: the cache-first pass selects at most targetCount - N cached candidates,
\* and a cached candidate is inserted into the pool only when a probe of it,
\* issued in this cycle, has returned valid (the cached outcome is only a hint).
C21_CacheIsHint ==
  /\ [][\A c \in CycleIds :
          CachePassStarted(c) =>
            Len(cycles'[c].proxies) <= targetCount - Len(availableProxies')]_vars
  /\ [][\A c \in CycleIds :
          (BatchDone(c) /\ cycles[c].phase = "cache") =>
            \A j \in Inserted(availableProxies, availableProxies') :
              \E k \in cycles[c].probed :
                /\ ProxyObj(cycles[c].proxies[k]) = availableProxies'[j]
                /\ cycles[c].slots[k - cycles[c].i] = "T"]_vars

\* C22: a call of refillProxies with the pool at or above targetCount does
\* nothing, whatever the cache holds: the cycle it starts issues no provider
\* request and no probe, and ends with the pool, the cursor and the cache as
\* they were and isRefilling false.
C22_FullPoolNoOp ==
  /\ [][(RefillProxies /\ ~isRefilling /\ Len(availableProxies) >= targetCount) =>
          /\ UNCHANGED <<availableProxies, currentIndex, proxyCache>>
          /\ \A c \in CycleIds :
               cycles'[c].pc # "fetching" /\ cycles'[c].probed = {}]_vars
  /\ [][\A c \in CycleIds :
          (/\ BatchDone(c) /\ cycles[c].phase = "cache"
           /\ cycles[c].remainingNeeded <= 0
           /\ Len(availableProxies) >= targetCount) =>
            /\ UNCHANGED <<availableProxies, currentIndex, proxyCache>>
            /\ cycles'[c].pc \notin {"fetching", "probing"}]_vars
  /\ [][\A c \in CycleIds :
          (CachePassDone(c) /\ Len(availableProxies) >= targetCount) =>
            /\ UNCHANGED <<availableProxies, currentIndex, proxyCache>>
            /\ cycles'[c].pc = "idle" /\ ~isRefilling']_vars

\* the probes of activation c that are in flight
Pending(c) == { k \in 1..Len(cycles[c].slots) : cycles[c].slots[k] = "P" }

\* C23: at every moment of a cycle at most concurrentRequests probes are in
\* flight: a sub-batch has at most concurrentRequests candidates.
C23_ProbeLimit ==
  \A c \in CycleIds :
    /\ Len(cycles[c].slots) <= concurrentRequests
    /\ Cardinality(Pending(c)) <= concurrentRequests

\* C24: sub-batches are validated one after another: a sub-batch is dispatched
\* only when every probe of the one before has resolved, the candidates up to
\* it all have their result, and no candidate after it has been probed; the
\* probes of one sub-batch can resolve in any order.
C24_SubBatchesInTurn ==
  /\ [](\A c \in CycleIds :
          cycles[c].pc = "probing" =>
            /\ Len(cycles[c].results) = cycles[c].i
            /\ cycles[c].probed \subseteq 1..(cycles[c].i + Len(cycles[c].slots))
            /\ \A k \in Pending(c) :
                 ENABLED ProbeDone(c, k, TRUE) /\ ENABLED ProbeDone(c, k, FALSE))
  /\ [][\A c \in CycleIds :
          (Dispatched(c) /\ cycles[c].pc = "probing") =>
            /\ Pending(c) = {}
            /\ cycles'[c].i = cycles[c].i + Len(cycles[c].slots)]_vars

\* the second sub-batch of a validation is in flight, a probe of it pending
C24_Witness ==
  \E c \in CycleIds :
    /\ cycles[c].pc = "probing" /\ cycles[c].i >= subBatchSize
    /\ Pending(c) # {}
    /\ Len(cycles[c].results) = cycles[c].i

\* the results testProxiesConcurrently returns when the sub-batch in flight of
\* activation c is its last
ReturnedResults(c) ==
  cycles[c].results \o [k \in 1..Len(cycles[c].slots) |->
                          [proxy |-> cycles[c].proxies[cycles[c].i + k],
                           result |-> cycles[c].slots[k] = "T"]]

\* a step in which the validation of activation c returns to refillProxies
TestReturned(c) ==
  /\ BatchDone(c)
  /\ \/ EnoughFound(ReturnedResults(c), cycles[c].remainingNeeded)
     \/ cycles[c].i + subBatchSize >= Len(cycles[c].proxies)

\* C25: with the cache enabled, when a fetch attempt has validated its
\* candidates, every tested candidate has a cache entry whose valid flag is its
\* outcome, also the candidates after the one that filled the pool.
C25_EveryOutcomeCached ==
  [][\A c \in CycleIds :
       (TestReturned(c) /\ useCache /\ cycles[c].phase = "fetch") =>
         \A k \in 1..Len(ReturnedResults(c)) :
           LET r == ReturnedResults(c)[k]
           IN /\ CacheHas(proxyCache', r.proxy)
              /\ CacheGet(proxyCache', r.proxy).valid = r.result]_vars

\* C26: a probe that fails gives false for its candidate only: the other slots
\* of the sub-batch keep their outcomes, each result recorded is the outcome of
\* its own probe, the next sub-batch or the rest of the attempt follows, and no
\* exception is caught in or leaves refillProxies.
C26_FailureIsResult ==
  /\ [](lastExit \notin {"caught", "escaped"})
  /\ [][\A c \in CycleIds, k \in 1..subBatchSize :
          ProbeDone(c, k, FALSE) =>
            /\ cycles'[c] = [cycles[c] EXCEPT !.slots[k] = "F"]
            /\ UNCHANGED <<availableProxies, currentIndex, proxyCache, isRefilling, lastExit>>]_vars
  /\ [][\A c \in CycleIds :
          (BatchDone(c) /\ \E k \in 1..Len(cycles[c].slots) : cycles[c].slots[k] = "F") =>
            /\ cycles'[c].pc # "idle" => cycles'[c].results = ReturnedResults(c)
            /\ IF /\ cycles[c].i + subBatchSize < Len(cycles[c].proxies)
                  /\ CountValid(ReturnedResults(c)) < cycles[c].remainingNeeded
               THEN /\ cycles'[c].pc = "probing"
                    /\ cycles'[c].i = cycles[c].i + subBatchSize
                    /\ UNCHANGED <<availableProxies, proxyCache>>
               ELSE /\ \/ Len(availableProxies') >= targetCount
                       \/ \A k \in 1..Len(ReturnedResults(c)) :
                            ReturnedResults(c)[k].result =>
                              \E j \in 1..Len(availableProxies') :
                                availableProxies'[j] = ProxyObj(ReturnedResults(c)[k].proxy)
                    /\ IF Len(availableProxies') >= targetCount
                       THEN cycles'[c].pc = "idle" /\ lastExit' = "target"
                       ELSE cycles'[c].pc = "delay"]_vars

\* a sub-batch has resolved with one probe failed and another valid, whose
\* candidate is not pooled yet
C26_Witness ==
  \E c \in CycleIds :
    /\ cycles[c].pc = "probing" /\ Pending(c) = {}
    /\ \E j, k \in 1..Len(cycles[c].slots) :
         /\ cycles[c].slots[j] = "F" /\ cycles[c].slots[k] = "T"
         /\ (cycles[c].i + j) \in cycles[c].probed
         /\ ~Exists(availableProxies, cycles[c].proxies[cycles[c].i + k])

\* a line that yields a candidate
Usable(line) == line.json /\ line.ip # "" /\ line.port # ""

\* C27: getProxiesFromProvider returns no candidate, and raises nothing, when
\* the request fails, the status is not 2xx or the body has no usable line; the
\* cycle then waits the retry delay, with the attempt counted and the pool, the
\* cursor, the cache and the flag as they were.
C27_ProviderFailureIsEmpty ==
  [][\A c \in CycleIds, r \in ProviderReplies :
       (/\ ProviderReply(c, r)
        /\ \/ r.failed
           \/ r.status \notin 200..299
           \/ \A k \in 1..Len(r.data) : ~Usable(r.data[k])) =>
         /\ getProxiesFromProvider(r) = <<>>
         /\ cycles'[c] = [cycles[c] EXCEPT !.pc = "delay"]
         /\ UNCHANGED <<availableProxies, currentIndex, proxyCache, isRefilling, lastExit>>]_vars

\* the candidates of a body: its usable lines, in order, as host:port, with
\* user:pass appended when the line has both
Candidates(body) ==
  LET usable == SelectSeq(body, Usable)
  IN [k \in 1..Len(usable) |->
        <<usable[k].ip, usable[k].port>>
          \o (IF usable[k].username # "" /\ usable[k].password # ""
              THEN <<usable[k].username, usable[k].password>> ELSE <<>>)]

\* C28: for every response body the candidate batch is exactly its usable
\* lines (JSON objects with ip and port), in response order, encoded as
\* host:port or host:port:user:pass; an unusable line is dropped alone and
\* raises nothing, and the batch is what the attempt filters and validates.
C28_ParsedBatch ==
  /\ [](\A r \in ProviderReplies :
          ~r.failed => getProxiesFromProvider(r) = Candidates(r.data))
  /\ [][\A c \in CycleIds, r \in ProviderReplies :
          (ProviderReply(c, r) /\ ~r.failed) =>
            LET kept == filterExistingProxies(availableProxies, Candidates(r.data))
            IN /\ lastExit' \notin {"caught", "escaped"}
               /\ IF Candidates(r.data) = <<>> THEN cycles'[c].pc = "delay"
                  ELSE IF kept = <<>> THEN cycles'[c].pc \in {"fetching", "idle"}
                  ELSE cycles'[c].pc = "probing" /\ cycles'[c].proxies = kept]_vars

\* the candidates of a body with unusable lines before and between the usable
\* ones are being validated
C28_Witness ==
  \E c \in CycleIds :
    /\ cycles[c].pc = "probing" /\ cycles[c].phase = "fetch"
    /\ cycles[c].proxies = Candidates(<<LineBad, LineC, LineNoPort, LineUserOnly>>)
    /\ cycles[c].proxies = << <<"c", "80">>, <<"b", "80">> >>

\* a step in which activation c starts an attempt
AttemptStarted(c) ==
  cycles'[c].pc = "fetching" /\ cycles'[c].attempts = cycles[c].attempts + 1

\* C29: the count an attempt requests from the provider is
\* min(max(batchSize, 2 * (targetCount - N)), 10), N being the pool size at the
\* start of the attempt.
C29_RequestedCount ==
  /\ [](\A t \in 1..MaxTarget, b \in 1..MaxBatch :
          \A n \in 0..(t + 1) :
            actualCount(batchSizeNeeded(t, b, n)) = Min(Max(b, 2 * (t - n)), 10))
  /\ [][\A c \in CycleIds :
          AttemptStarted(c) =>
            cycles'[c].requested
              = Min(Max(batchSize, 2 * (targetCount - Len(availableProxies'))), 10)]_vars

\* the second attempt of a cycle has requested batchSize candidates, the pool
\* lacking one entry
C29_Witness ==
  \E c \in CycleIds :
    /\ cycles[c].pc = "fetching" /\ cycles[c].attempts = 2
    /\ Len(availableProxies) = targetCount - 1
    /\ cycles[c].requested = batchSize

\* C30: after an attempt the retry delay is waited exactly when it got no
\* candidate, or validated candidates and left the pool below targetCount; when
\* every candidate was pooled already the next attempt starts at once and is
\* counted; the attempt that reaches targetCount ends the cycle without delay.
C30_DelayBetweenAttempts ==
  /\ [][\A c \in CycleIds, r \in ProviderReplies :
          ProviderReply(c, r) =>
            LET got == getProxiesFromProvider(r)
            IN IF got = <<>>
               THEN cycles'[c].pc = "delay" /\ cycles'[c].attempts = cycles[c].attempts
               ELSE IF filterExistingProxies(availableProxies, got) = <<>>
                    THEN IF cycles[c].attempts < maxRefillAttempts
                         THEN AttemptStarted(c)
                         ELSE cycles'[c].pc = "idle" /\ lastExit' = "budget"
                    ELSE cycles'[c].pc = "probing"]_vars
  /\ [][\A c \in CycleIds :
          (TestReturned(c) /\ cycles[c].phase = "fetch") =>
            IF Len(availableProxies') >= targetCount
            THEN cycles'[c].pc = "idle" /\ lastExit' = "target"
            ELSE cycles'[c].pc = "delay" /\ cycles'[c].attempts = cycles[c].attempts]_vars
  /\ [][\A c \in CycleIds :
          DelayDone(c) =>
            IF Len(availableProxies) < targetCount /\ cycles[c].attempts < maxRefillAttempts
            THEN AttemptStarted(c)
            ELSE cycles'[c].pc = "idle"]_vars

\* an attempt has validated its candidates, the pool is still below
\* targetCount, and the cycle waits the retry delay before its next attempt
C30_Witness ==
  \E c \in CycleIds :
    /\ cycles[c].pc = "delay" /\ cycles[c].phase = "fetch"
    /\ Len(cycles[c].results) > 0
    /\ Len(availableProxies) < targetCount
    /\ cycles[c].attempts < maxRefillAttempts

\* C31: after cleanupCache at time now every entry left is fresh
\* (now - timestamp < cacheExpiry), every fresh entry is left, in its place,
\* the pool and the cursor are as before, and a second call at the same time
\* changes nothing.
C31_CleanupRemovesStale ==
  [][CleanupCache =>
       /\ \A k \in 1..Len(proxyCache') : isFresh(proxyCache'[k], now)
       /\ LET fresh(data) == isFresh(data, now)
          IN SelectSeq(proxyCache', fresh) = SelectSeq(proxyCache, fresh)
       /\ UNCHANGED <<availableProxies, currentIndex>>
       /\ cleanupCache(proxyCache', now) = proxyCache']_vars

IsPrefix(a, b) == Len(a) <= Len(b) /\ SubSeq(b, 1, Len(a)) = a

\* the place of the pool entry with the identity of a proxy string, 0 when it
\* has none
Position(avail, proxy) ==
  IF \E n \in 1..Len(avail) : avail[n] = ProxyObj(proxy)
  THEN CHOOSE n \in 1..Len(avail) : avail[n] = ProxyObj(proxy)
  ELSE 0

\* the probes of the sub-batch in flight that resolved valid for a candidate
\* whose identity no pool entry has, in the order they resolved (what C32
\* names the completion order of the new proxies)
ResolvedValid(c) ==
  LET new(k) == /\ cycles[c].slots[k] = "T"
                /\ Position(availableProxies, cycles[c].proxies[cycles[c].i + k]) = 0
  IN SelectSeq(completion[c], new)

\* C32: the valid candidates of a fetch attempt are appended to the pool in the
\* order in which their probes completed, not in the order the provider listed
\* them; an insertion keeps the entries already pooled, in their places.
C32_CompletionOrder ==
  /\ [][\A c \in CycleIds :
          (TestReturned(c) /\ cycles[c].phase = "fetch") =>
            \A m, n \in 1..Len(ResolvedValid(c)) :
              LET first == cycles[c].proxies[cycles[c].i + ResolvedValid(c)[m]]
                  second == cycles[c].proxies[cycles[c].i + ResolvedValid(c)[n]]
              IN (/\ m < n
                  /\ Position(availableProxies', first) > 0
                  /\ Position(availableProxies', second) > 0) =>
                   Position(availableProxies', first) <= Position(availableProxies', second)]_vars
  /\ [][\A c \in CycleIds : BatchDone(c) => IsPrefix(availableProxies, availableProxies')]_vars

\* a step of a refill cycle: its call or one of its resumptions
CycleStep ==
  \/ RefillProxies
  \/ \E c \in CycleIds :
       \/ BatchDone(c) \/ CachePassDone(c) \/ DelayDone(c)
       \/ \E r \in ProviderReplies : ProviderReply(c, r)
       \/ \E k \in 1..subBatchSize, valid \in BOOLEAN : ProbeDone(c, k, valid)

\* C33: a refill cycle only appends to the pool: each of its steps leaves the
\* earlier pool as a prefix of the later one, so the size never decreases
\* during a cycle without removals; only removeProxy takes entries out.
C33_CycleOnlyAppends ==
  /\ [][CycleStep =>
          /\ IsPrefix(availableProxies, availableProxies')
          /\ Len(availableProxies') >= Len(availableProxies)]_vars
  /\ [][~IsPrefix(availableProxies, availableProxies') =>
          \E a \in RemoveArgs : RemoveProxy(a[1], a[2])]_vars

\* cycles have filled the pool, the second entry appended behind the first
C33_Witness ==
  /\ lastExit = "target" /\ ActiveCycles = {}
  /\ Len(availableProxies) >= 2
  /\ Position(availableProxies, <<"b", "80">>) = 1

\* C34: from an empty pool, under every interleaving of refill cycles and
\* removeProxy calls and whatever the cache holds, the pool never has more
\* than targetCount entries.
C34_PoolBounded == Len(availableProxies) <= targetCount

\* the proxy string of a pool entry: the key addValidProxies cached it under
KeyOf(p) ==
  IF p.username = Undefined THEN <<p.ip, p.port>>
  ELSE <<p.ip, p.port, p.username, p.password>>

\* C35: removeProxy records every proxy it removes, with or without
\* credentials, as invalid in the cache, so no valid fresh entry is left for a
\* proxy that is not pooled and a later cycle cannot put the proxy back from
\* its old cached result.
C35_RemovedIsInvalid ==
  /\ [][\A a \in RemoveArgs :
          (RemoveProxy(a[1], a[2]) /\ useCache) =>
            \A k \in 1..Len(availableProxies) :
              (availableProxies[k].ip = a[1] /\ availableProxies[k].port = a[2]) =>
                /\ CacheHas(proxyCache', KeyOf(availableProxies[k]))
                /\ ~CacheGet(proxyCache', KeyOf(availableProxies[k])).valid]_vars
  /\ [](\A k \in 1..Len(proxyCache) :
          (proxyCache[k].valid /\ isFresh(proxyCache[k], now)) =>
            Position(availableProxies, proxyCache[k].key) > 0)

\* the candidates of the validation of activation c whose outcome was taken
\* from the cache: no probe of the validation was issued for their proxy string
CacheServed(c) ==
  { cycles[c].proxies[j] : j \in 1..Len(cycles[c].proxies) } \
    { cycles[c].proxies[j] : j \in cycles[c].probed }

\* C36: a validation that takes a candidate's fresh cached outcome instead of
\* probing it leaves the candidate's cache entry, timestamp included, as it was:
\* only a real probe or removeProxy sets the timestamp of an entry.
C36_HitKeepsTimestamp ==
  [][\A c \in CycleIds :
       TestReturned(c) =>
         \A proxy \in CacheServed(c) :
           CacheHas(proxyCache, proxy) =>
             /\ CacheHas(proxyCache', proxy)
             /\ CacheGet(proxyCache', proxy) = CacheGet(proxyCache, proxy)]_vars

\* C37: when a response ends without content, what leaves the pool is the proxy
\* this request acquired and was sent through, whatever other requests did in
\* between: no request removes a proxy another request acquired.
C37_RemovesOwnProxy ==
  [][\A r \in RequestIds :
       EndNoContent(r) =>
         availableProxies' = removeFilter(availableProxies, acquired[r].proxy.proxy.ip,
                                          acquired[r].proxy.proxy.port)]_vars

\* C38: a request whose every attempt receives 401 terminates: each 401 takes
\* one cookie out of the rotation or fails the request, so the request that is
\* sent is eventually over, also with two cookies of one user and with other
\* requests switching the current cookie.
C38_Terminates ==
  /\ [][\A r \in RequestIds :
          Respond401(r) =>
            \/ Len(cookieEntries') = Len(cookieEntries) - 1
            \/ requests'[r] = IdleRequest]_vars
  /\ (requests[Victim].pc = "sent") ~> (requests[Victim].pc = "idle")

\* the victim is retrying with the second cookie of a user whose first cookie
\* a 401 has removed
C38_Witness ==
  /\ requests[Victim].pc = "sent" /\ requests[Victim].cookie = SecondCookie
  /\ cookieEntries = <<SecondCookie, "u2">>

\* C39: whenever the cookie manager holds entries and no initialize or
\* validate call is under way, its cursor is the index of one of them, through
\* initialize, getNext, markAsInvalid and the commands add, validate and
\* remove, so a getNext call made then never reads a missing entry: it returns
\* an entry of cookieEntries, or null when the manager is uninitialized or
\* empty.
C39_CursorInRange ==
  /\ []((cmCalls = NoCalls /\ Len(cookieEntries) > 0) =>
          cookieIndex < Len(cookieEntries))
  /\ [][(GetNext /\ cmCalls = NoCalls) =>
          LET next == getNext(cookieEntries, cookieIndex)
          IN /\ next.value # MissingEntry
             /\ next.value = NoCookie <=> (~initialized \/ Len(cookieEntries) = 0)
             /\ next.value # NoCookie =>
                  \E k \in 1..Len(cookieEntries) : cookieEntries[k] = next.value]_vars

\* C40: ProxyServer refers to every helper process that runs and was not
\* stopped: proxyProcess and logStream are cleared only by stop() or by an
\* event of the process they refer to (logStream also by the start() call that
\* opened it), so a late event of an earlier process orphans no process, and
\* start() spawns only when no process is referenced.
C40_ReferencesRunning ==
  /\ [](\A pid \in 1..Len(processes) : processes[pid] = "running" => proxyProcess = pid)
  /\ [][(proxyProcess # 0 /\ proxyProcess' = 0) =>
          (ServerStop \/ ExitEvent(proxyProcess) \/ ErrorEvent(proxyProcess))]_vars
  /\ [][(logStream # 0 /\ logStream' = 0) =>
          (ServerStop \/ ExitEvent(logStream) \/ ErrorEvent(logStream)
             \/ StartResume(logStream))]_vars
  /\ [][Len(processes') > Len(processes) => proxyProcess = 0]_vars

====
